---- MODULE Spec2Model ----
(***************************************************************************)
(* Webhook ingestion and result normalisation of PaymentGatewayAxcess      *)
(* (src/unnamed/part_001), run against the in-memory persistence facade    *)
(* PaymentGatewayServiceMock (src/unnamed/part_003).                       *)
(*                                                                         *)
(* JavaScript strings are sequences of one-character strings, so that      *)
(* startsWith / includes / toLowerCase are computed, not assumed.  The     *)
(* values null and undefined of a string-typed field are both Null (every  *)
(* use in the modelled code goes through ||, ?. or String(x || ""), which  *)
(* do not tell them apart).  An absent object is Absent.                   *)
(* The pass-through fields gateway, amount, currency, createdAt and        *)
(* updatedAt are not carried: no modelled branch reads them.               *)
(***************************************************************************)
EXTENDS Integers, Sequences, FiniteSets, TLC

----------------------------------------------------------------------------
(* Bounds of the model *)

\* number of operations (webhook deliveries, S2S calls, redirect callbacks)
\* started in one behaviour
MaxCalls == 2
\* number of times the clock advances in one behaviour
MaxTicks == 1
\* the clock at construction: any positive time
StartTime == 1

----------------------------------------------------------------------------
(* JavaScript values *)

Null == <<"null">>
Absent == [absent |-> TRUE]
NullObj == [null |-> TRUE]

\* JS truthiness of a string-or-null value
Truthy(v) == v # Null /\ v # <<>>
\* a || b on string-or-null values
Or(a, b) == IF Truthy(a) THEN a ELSE b
\* String(v || "")
Str(v) == IF Truthy(v) THEN v ELSE <<>>

StartsWith(s, p) == Len(s) >= Len(p) /\ SubSeq(s, 1, Len(p)) = p
Includes(s, k) == \E i \in 0..(Len(s) - Len(k)) : SubSeq(s, i + 1, i + Len(k)) = k

UpperToLower ==
  ("A" :> "a") @@ ("B" :> "b") @@ ("C" :> "c") @@ ("D" :> "d") @@ ("E" :> "e") @@
  ("F" :> "f") @@ ("G" :> "g") @@ ("H" :> "h") @@ ("I" :> "i") @@ ("J" :> "j") @@
  ("K" :> "k") @@ ("L" :> "l") @@ ("M" :> "m") @@ ("N" :> "n") @@ ("O" :> "o") @@
  ("P" :> "p") @@ ("Q" :> "q") @@ ("R" :> "r") @@ ("S" :> "s") @@ ("T" :> "t") @@
  ("U" :> "u") @@ ("V" :> "v") @@ ("W" :> "w") @@ ("X" :> "x") @@ ("Y" :> "y") @@
  ("Z" :> "z")
ToLowerCase(s) ==
  [i \in 1..Len(s) |-> IF s[i] \in DOMAIN UpperToLower THEN UpperToLower[s[i]] ELSE s[i]]

Whitespace == {" ", "\t", "\n"}
RECURSIVE TrimStart(_)
TrimStart(s) == IF s # <<>> /\ Head(s) \in Whitespace THEN TrimStart(Tail(s)) ELSE s
RECURSIVE TrimEnd(_)
TrimEnd(s) ==
  IF s # <<>> /\ s[Len(s)] \in Whitespace THEN TrimEnd(SubSeq(s, 1, Len(s) - 1)) ELSE s
\* trimStart() in place of trim()
Trim_StartOnly(s) == TrimStart(s)
Trim(s) == TrimEnd(TrimStart(s))

----------------------------------------------------------------------------
(* String literals of the source *)

K_payment == <<"p","a","y","m","e","n","t">>
K_refund == <<"r","e","f","u","n","d">>
K_chargeback == <<"c","h","a","r","g","e","b","a","c","k">>
K_registration == <<"r","e","g","i","s","t","r","a","t","i","o","n">>
K_create == <<"c","r","e","a","t","e">>
K_update == <<"u","p","d","a","t","e">>
K_upgrade == <<"u","p","g","r","a","d","e">>
K_schedule == <<"s","c","h","e","d","u","l","e">>
K_subscription == <<"s","u","b","s","c","r","i","p","t","i","o","n">>
K_cancel == <<"c","a","n","c","e","l">>
K_reschedul == <<"r","e","s","c","h","e","d","u","l">>
K_risk == <<"r","i","s","k">>
K_flag == <<"f","l","a","g">>
K_pending == <<"p","e","n","d","i","n","g">>

P_000 == <<"0","0","0",".">>
P_200_300 == <<"2","0","0",".","3","0","0",".">>
P_100_396 == <<"1","0","0",".","3","9","6",".">>
P_800_400 == <<"8","0","0",".","4","0","0",".">>
P_700 == <<"7","0","0",".">>

MsgApproved == "Payment approved."
MsgIssuerDeclined == "Payment declined by the issuer."
Msg3DS == "3-D Secure authentication failed or was canceled."
MsgInvalidCard == "Invalid card data. Please check the number and expiry."
MsgExpired == "Payment expired or timed out."
MsgFailed == "Payment failed. Please try another card or contact support."

----------------------------------------------------------------------------
(* Result normaliser *)

mapResultCodeToUiMessage(resultCode) ==
  LET code == Trim(Str(resultCode))
      M(msg) == [code |-> code, uiMessage |-> msg]
  IN  IF StartsWith(code, P_000) THEN M(MsgApproved)
      ELSE IF StartsWith(code, P_200_300) THEN M(MsgIssuerDeclined)
      ELSE IF StartsWith(code, P_100_396) THEN M(Msg3DS)
      ELSE IF StartsWith(code, P_800_400) THEN M(MsgInvalidCard)
      ELSE IF StartsWith(code, P_700) THEN M(MsgExpired)
      ELSE M(MsgFailed)

\* data.result?.code and data.result?.description
ResultCodeOf(obj) == IF obj.result = Absent THEN Null ELSE obj.result.code
ResultDescriptionOf(obj) == IF obj.result = Absent THEN Null ELSE obj.result.description

\* {}: an object none of whose fields is present
EmptyData ==
  [id |-> Null, ndc |-> Null, paymentId |-> Null, result |-> Absent, resultCode |-> Null,
   resultDescription |-> Null]
\* res.data || {}
DataOrEmpty(res) == IF res.data = NullObj THEN EmptyData ELSE res.data
_normalizePaymentResult(data) ==
  LET id == Or(data.id, Or(data.ndc, Or(data.paymentId, Null)))
      resultCode == Or(ResultCodeOf(data), Or(data.resultCode, Null))
      description == Or(ResultDescriptionOf(data), Or(data.resultDescription, <<>>))
  IN  [id |-> id,
       resultCode |-> resultCode,
       description |-> description,
       approved |-> StartsWith(Str(resultCode), P_000),
       pending |-> Includes(ToLowerCase(description), K_pending)]

----------------------------------------------------------------------------
(* Event classifier *)

Undefined == [undefined |-> TRUE]
\* the object {} read through the txn field names
EmptyTxnObj ==
  [id |-> Null, transactionId |-> Null, result |-> Absent, resultCode |-> Null,
   registrationId |-> Null]
EmptyRiskObj == [score |-> Undefined, reason |-> Null, rules |-> Undefined]

extractRiskSignals(payload) ==
  LET riskObj == IF payload.risk # Absent THEN payload.risk
                 ELSE IF payload.fraud # Absent THEN payload.fraud
                 ELSE EmptyRiskObj
  IN  [score |-> riskObj.score,
       reason |-> IF Truthy(riskObj.reason) THEN riskObj.reason ELSE Null,
       rules |-> riskObj.rules]

\* payload.payment || payload.transaction || payload.txn || {}
TxnObjOf(payload) ==
  IF payload.payment # Absent THEN payload.payment
  ELSE IF payload.transaction # Absent THEN payload.transaction
  ELSE IF payload.txn # Absent THEN payload.txn
  ELSE EmptyTxnObj

\* approved: (txn.result?.code || "").startsWith("000.")
TxnApproved(txn) == StartsWith(Str(ResultCodeOf(txn)), P_000)

\* a classifier that never sees a transaction as pending
NormalizedTxnOf_NeverPending(txn) ==
  [gatewayTxnId |-> Or(txn.id, Or(txn.transactionId, Null)),
   resultCode |-> Or(ResultCodeOf(txn), Or(txn.resultCode, Null)),
   approved |-> TxnApproved(txn),
   pending |-> FALSE]
NormalizedTxnOf(txn) ==
  [gatewayTxnId |-> Or(txn.id, Or(txn.transactionId, Null)),
   resultCode |-> Or(ResultCodeOf(txn), Or(txn.resultCode, Null)),
   approved |-> TxnApproved(txn),
   pending |-> Includes(ToLowerCase(Str(ResultDescriptionOf(txn))), K_pending)]

\* registration: registrationId ? { registrationId } : null
PaymentRegistration_Unguarded(registrationId) == [registrationId |-> registrationId]
PaymentRegistration(registrationId) ==
  IF Truthy(registrationId) THEN [registrationId |-> registrationId] ELSE NullObj

Event(type, txn, registration, schedule, risk, raw) ==
  [type |-> type, txn |-> txn, registration |-> registration,
   schedule |-> schedule, risk |-> risk, raw |-> raw]

mapWebhookEvent(payload) ==
  LET t == ToLowerCase(Str(Or(payload.type, Or(payload.eventType, <<>>))))
      txn == TxnObjOf(payload)
      normalizedTxn == NormalizedTxnOf(txn)
      registrationId == Or(payload.registrationId, Or(txn.registrationId, Null))
      schedule == IF payload.schedule # Absent THEN payload.schedule
                  ELSE IF payload.subscription # Absent THEN payload.subscription
                  ELSE NullObj
      risk == extractRiskSignals(payload)
      reg == [registrationId |-> registrationId]
  IN  IF Includes(t, K_payment) /\ normalizedTxn.approved
        THEN Event("payment_success", normalizedTxn, PaymentRegistration(registrationId),
                   Undefined, Undefined, payload)
      ELSE IF Includes(t, K_payment) /\ ~normalizedTxn.approved /\ ~normalizedTxn.pending
        THEN Event("payment_failed", normalizedTxn, Undefined, Undefined, Undefined, payload)
      ELSE IF Includes(t, K_refund)
        THEN Event("refund", normalizedTxn, Undefined, Undefined, Undefined, payload)
      ELSE IF Includes(t, K_chargeback)
        THEN Event("chargeback", normalizedTxn, Undefined, Undefined, Undefined, payload)
      ELSE IF Includes(t, K_registration) /\ Includes(t, K_create)
        THEN Event("registration_created", Undefined, reg, Undefined, Undefined, payload)
      ELSE IF Includes(t, K_registration) /\ (Includes(t, K_update) \/ Includes(t, K_upgrade))
        THEN Event("registration_updated", Undefined, reg, Undefined, Undefined, payload)
      ELSE IF Includes(t, K_schedule) \/ Includes(t, K_subscription)
        THEN IF Includes(t, K_cancel)
               THEN Event("schedule_canceled", Undefined, Undefined, schedule, Undefined, payload)
             ELSE IF Includes(t, K_reschedul)
               THEN Event("schedule_rescheduled", Undefined, Undefined, schedule, Undefined, payload)
             ELSE Event("schedule_created", Undefined, Undefined, schedule, Undefined, payload)
      ELSE IF Includes(t, K_risk)
        THEN IF Includes(t, K_flag)
               THEN Event("risk_flagged", Undefined, Undefined, Undefined, risk, payload)
             ELSE Event("risk_cleared", Undefined, Undefined, Undefined, risk, payload)
      ELSE Event("unknown", Undefined, Undefined, Undefined, Undefined, payload)

----------------------------------------------------------------------------
(* Webhook crypto *)

\* byte length of a SHA-256 / HMAC-SHA256 digest
DigestBytes == 32
HexDigits == <<"0","1","2","3","4","5","6","7","8","9","a","b","c","d","e","f">>
HexValue ==
  [c \in {HexDigits[i] : i \in 1..16} |-> (CHOOSE i \in 1..16 : HexDigits[i] = c) - 1]
  @@ ("A" :> 10) @@ ("B" :> 11) @@ ("C" :> 12) @@ ("D" :> 13) @@ ("E" :> 14) @@ ("F" :> 15)

\* Buffer.toString("hex") / digest("hex")
RECURSIVE HexEncode(_)
HexEncode(bytes) ==
  IF bytes = <<>> THEN <<>>
  ELSE <<HexDigits[(Head(bytes) \div 16) + 1], HexDigits[(Head(bytes) % 16) + 1]>>
       \o HexEncode(Tail(bytes))

\* Buffer.from(str): the bytes of the characters, no hex decoding
HexDecode_Utf8(str) == [i \in 1..Len(str) |-> 48]
\* Buffer.from(str, "hex"): decodes pairs of hex digits and stops at the first
\* pair that is not two hex digits (an odd last character is dropped)
RECURSIVE HexDecode(_)
HexDecode(str) ==
  IF Len(str) < 2 \/ str[1] \notin DOMAIN HexValue \/ str[2] \notin DOMAIN HexValue
    THEN <<>>
  ELSE <<HexValue[str[1]] * 16 + HexValue[str[2]]>> \o HexDecode(SubSeq(str, 3, Len(str)))

\* signature.replace(/^0x/, "")
Strip0x(str) == IF StartsWith(str, <<"0","x">>) THEN SubSeq(str, 3, Len(str)) ELSE str

\* _coerceKeyTo32Bytes: the configured secrets of the model are utf8 strings that
\* are neither 32 bytes of base64 nor 32 bytes of hex, so the key is the SHA-256
\* of the string; the digest is kept symbolic
_coerceKeyTo32Bytes(secret) == [sha256 |-> secret]

\* a plaintext is the JSON text of a payload, or text that JSON.parse rejects
JsonText(payload) == [json |-> payload]
Malformed == [malformed |-> TRUE]

\* crypto.createHmac("sha256", key).update(plaintext).digest(): DigestBytes bytes
\* determined by key and plaintext (a stand-in for the real digest: equal inputs
\* give equal bytes)
TextSeed(plaintext) ==
  IF plaintext = Malformed THEN 1
  ELSE Len(Str(plaintext.json.type)) + 3 * Len(Str(plaintext.json.eventType))
       + 5 * Len(Str(TxnObjOf(plaintext.json).id))
       + 7 * Len(Str(ResultCodeOf(TxnObjOf(plaintext.json))))
Hmac(key, plaintext) ==
  [i \in 1..DigestBytes |-> (Len(key.sha256) * 31 + TextSeed(plaintext) * 17 + i * 7) % 256]

\* crypto.timingSafeEqual(a, b): a RangeError when the byte lengths differ
TimingSafeEqual(a, b) ==
  IF Len(a) # Len(b) THEN [threw |-> "RangeError"] ELSE [threw |-> "no", equal |-> a = b]

Thrown(e) == [threw |-> e]

\* rawBody: [kind |-> "plain", text] is the text itself; [kind |-> "aes", key, iv,
\* text] is base64(AES-256-CBC(key, iv, text)).  headers: [iv, sig].
\* decipher.final() that accepts any padding
AesDecrypt_NoPaddingCheck(body, key, iv) == [threw |-> "no", text |-> body.text]
AesDecrypt(body, key, iv) ==
  IF body.key # key THEN Thrown("bad decrypt")           \* decipher.final()
  ELSE IF body.iv # iv THEN [threw |-> "no", text |-> Malformed]  \* first block garbled
  ELSE [threw |-> "no", text |-> body.text]

decryptAndVerifyWebhook(secretKey, rawBody, headers) ==
  IF ~Truthy(secretKey) THEN Thrown("Webhook secretKey is not configured")
  ELSE
    LET key == _coerceKeyTo32Bytes(secretKey)
        dec == IF rawBody.kind = "plain" THEN [threw |-> "no", text |-> rawBody.text]
               ELSE IF ~Truthy(headers.iv)
                 THEN Thrown("Missing IV header for webhook decryption")
               ELSE AesDecrypt(rawBody, key, headers.iv)
    IN  IF dec.threw # "no" THEN dec
        ELSE
          LET plaintext == dec.text
              cmp == IF Truthy(headers.sig)
                       THEN TimingSafeEqual(Hmac(key, plaintext),
                                            HexDecode(Strip0x(headers.sig)))
                     ELSE [threw |-> "no", equal |-> TRUE]
          IN  IF cmp.threw # "no" THEN Thrown(cmp.threw)
              ELSE IF plaintext = Malformed THEN Thrown("SyntaxError")
              ELSE [threw |-> "no",
                    decryptedJson |-> plaintext.json,
                    idempotencyKey |-> Or(plaintext.json.id,
                                          Or(plaintext.json.eventId,
                                             Or(plaintext.json.payloadId, Null))),
                    verified |-> cmp.equal]

----------------------------------------------------------------------------
(* Input values *)

Dot == <<".">>
T_payment_success == K_payment \o Dot \o <<"s","u","c","c","e","s","s">>
T_payment_failed == K_payment \o Dot \o <<"f","a","i","l","e","d">>
T_payment_pending == K_payment \o Dot \o K_pending
T_payment_refund == K_payment \o Dot \o K_refund
T_payment_chargeback == K_payment \o Dot \o K_chargeback
T_PAYMENT_REFUND == <<"P","A","Y","M","E","N","T",".","R","E","F","U","N","D">>
T_refund_created == K_refund \o Dot \o K_create \o <<"d">>
T_chargeback == K_chargeback
T_registration_created == K_registration \o Dot \o K_create \o <<"d">>
T_registration_updated == K_registration \o Dot \o K_update \o <<"d">>
T_registration_upgraded == K_registration \o Dot \o K_upgrade \o <<"d">>
T_subscription_created == K_subscription \o Dot \o K_create \o <<"d">>
T_subscription_canceled == K_subscription \o Dot \o K_cancel \o <<"e","d">>
T_schedule_rescheduled == K_schedule \o Dot \o K_reschedul \o <<"e","d">>
T_risk_flagged == K_risk \o Dot \o K_flag \o <<"g","e","d">>
T_risk_cleared == K_risk \o Dot \o <<"c","l","e","a","r","e","d">>
T_ping == <<"p","i","n","g">>

Types ==
  {T_payment_success, T_payment_failed, T_payment_pending, T_payment_refund,
   T_payment_chargeback, T_PAYMENT_REFUND, T_refund_created, T_chargeback,
   T_registration_created, T_registration_updated, T_registration_upgraded,
   T_subscription_created, T_subscription_canceled, T_schedule_rescheduled,
   T_risk_flagged, T_risk_cleared, T_ping, <<>>}

C_approved == P_000 \o <<"1","0","0",".","1","1","0">>
C_declined == P_200_300 \o <<"4","0","4">>
C_3ds == P_100_396 \o <<"1","0","3">>
C_no_dot == <<"0","0","0">>
Codes == {C_approved, C_declined, C_3ds, C_no_dot}

D_pending == <<"T","r","a","n","s","a","c","t","i","o","n"," ">> \o <<"P","e","n","d","i","n","g">>
D_declined == <<"d","e","c","l","i","n","e","d">>
Descriptions == {D_pending, D_declined}

T1 == <<"T","1">>
T2 == <<"T","2">>
R1 == <<"R","1">>
S1 == <<"S","1">>
E1 == <<"E","1">>

Results ==
  {Absent} \cup {[code |-> c, description |-> d] :
                   c \in {Null, C_approved, C_declined}, d \in {Null} \cup Descriptions}

TxnObjs ==
  {[id |-> i, transactionId |-> Null, result |-> r, resultCode |-> rc,
    registrationId |-> g] :
     i \in {Null, T1}, r \in Results, rc \in {Null, C_approved}, g \in {Null, R1}}

ScheduleObjs == {[scheduleId |-> S1, subscriptionId |-> Null]}
RiskObjs == {[score |-> [num |-> 87], reason |-> <<"v","e","l","o","c","i","t","y">>,
              rules |-> Undefined]}

Payload(type, eventType, payment, transaction, txn, registrationId, schedule, subscription, risk, id) ==
  [type |-> type, eventType |-> eventType, payment |-> payment,
   transaction |-> transaction, txn |-> txn, registrationId |-> registrationId,
   schedule |-> schedule, subscription |-> subscription, risk |-> risk,
   fraud |-> Absent, id |-> id, eventId |-> Null, payloadId |-> Null]

\* payloads whose txn sub-object sits under payment, with or without the other shapes
PaymentPayloads ==
  {Payload(ty, Null, o, Absent, Absent, g, sch, Absent, rk, Null) :
     ty \in Types, o \in TxnObjs, g \in {Null, R1},
     sch \in {Absent} \cup ScheduleObjs, rk \in {Absent} \cup RiskObjs}
\* payloads that use the alternative field names, or carry no txn sub-object
VariantPayloads ==
  {Payload(Null, ty, Absent, o, Absent, Null, Absent, sch, Absent, E1) :
     ty \in Types, o \in {Absent} \cup TxnObjs, sch \in {Absent} \cup ScheduleObjs}
  \cup {Payload(ty, Null, Absent, Absent, o, g, Absent, Absent, Absent, Null) :
     ty \in Types, o \in TxnObjs, g \in {Null, R1}}
FnPayloads == PaymentPayloads \cup VariantPayloads

\* gateway response bodies (Copy&Pay status, S2S)
GatewayData ==
  {[id |-> i, ndc |-> Null, paymentId |-> Null, result |-> r, resultCode |-> rc,
    resultDescription |-> rd] :
     i \in {Null, T1, T2}, r \in Results, rc \in {Null} \cup Codes,
     rd \in {Null} \cup Descriptions}

----------------------------------------------------------------------------
(* Persistence facade: PaymentGatewayServiceMock *)

NewService ==
  [sessions |-> <<>>, transactions |-> <<>>, schedules |-> <<>>, tokens |-> <<>>,
   webhooks |-> <<>>, grants |-> <<>>, denials |-> <<>>, resume |-> <<>>]

saveTransaction(s, t) == [s EXCEPT !.transactions = Append(@, t)]
\* a facade that keeps one grant per payload
grantAccess_Idempotent(s, payload) ==
  IF \E i \in 1..Len(s.grants) : s.grants[i] = payload THEN s
  ELSE [s EXCEPT !.grants = Append(@, payload)]
grantAccess(s, payload) == [s EXCEPT !.grants = Append(@, payload)]
denyAccess(s, payload) == [s EXCEPT !.denials = Append(@, payload)]
\* Map.set(t.id, t)
saveToken(s, t) == [s EXCEPT !.tokens = (t.id :> t) @@ @]
\* Map.set(t.id, {...old, ...t}): the token records of the model hold id only
updateToken(s, t) == [s EXCEPT !.tokens = (t.id :> t) @@ @]
saveWebhook_Overwrite(s, w) == [s EXCEPT !.webhooks = <<w>>]
saveWebhook(s, w) == [s EXCEPT !.webhooks = Append(@, w)]
\* `S-${this.schedules.size + 1}`
GeneratedScheduleId(s) == <<"S", "-", HexDigits[Cardinality(DOMAIN s.schedules) + 2]>>
upsertSchedule(s, sch) ==
  LET id == Or(sch.scheduleId, Or(sch.subscriptionId, GeneratedScheduleId(s)))
  IN  [s EXCEPT !.schedules = (id :> [sch EXCEPT !.scheduleId = id]) @@ @]
saveResumeInstruction(s, instr) == [s EXCEPT !.resume = Append(@, instr)]
\* Map.delete(id)
deleteToken(s, id) == [s EXCEPT !.tokens = [k \in DOMAIN @ \ {id} |-> @[k]]]
getSessionsBy(s, key, val) == SelectSeq(s.sessions, LAMBDA x : x[key] = val)
saveSession(s, x) ==
  IF \E i \in 1..Len(s.sessions) : s.sessions[i].id = x.id
    THEN [s EXCEPT !.sessions =
            [i \in 1..Len(@) |->
               IF i = (CHOOSE j \in 1..Len(@) : @[j].id = x.id) THEN x ELSE @[i]]]
  ELSE [s EXCEPT !.sessions = Append(@, x)]

----------------------------------------------------------------------------
(* State *)

VARIABLES
  svc,            \* the persistence facade's collections
  webhookSecret,  \* this.webhookConfig.secretKey
  now,            \* Date.now(), in milliseconds
  facade,         \* "mock": the in-memory facade; "faulty": one whose methods may throw
  tasks,          \* the asynchronous calls started so far, each with the await it is at
  trace,          \* history: handler invocations and facade calls, in order
  fn, arg, ret    \* one application of a pure method: its name, argument, result

vars == <<svc, webhookSecret, now, facade, tasks, trace, fn, arg, ret>>

SecretKey ==
  <<"t","e","s","t","-","s","e","c","r","e","t","-","f","o","r","-","w","e","b","h","o","o","k","s">>
OtherKey == <<"o","t","h","e","r">>
IV1 == <<"i","v","1">>
IV2 == <<"i","v","2">>

NotCalled == [notCalled |-> TRUE]
Entry(t, what, a) == [task |-> t, what |-> what, arg |-> a]
SetTask(t, rec) == [tasks EXCEPT ![t] = rec]

----------------------------------------------------------------------------
(* handleWebhook and the event handlers.  An async method runs from one await *)
(* to the next without interruption; a facade method of the mock does its    *)
(* work when it is called, and the caller resumes in a later step.           *)

\* {...event.txn, status, uiMessage}
TxnRecord(txn, status, ui) ==
  [gatewayTxnId |-> txn.gatewayTxnId, resultCode |-> txn.resultCode,
   approved |-> txn.approved, pending |-> txn.pending,
   status |-> status, uiMessage |-> ui.uiMessage]
\* {...event.txn, status}
TxnRecordNoMessage_StatusRefunded(txn, status) ==
  [gatewayTxnId |-> txn.gatewayTxnId, resultCode |-> txn.resultCode,
   approved |-> txn.approved, pending |-> txn.pending, status |-> "refunded"]
TxnRecordNoMessage(txn, status) ==
  [gatewayTxnId |-> txn.gatewayTxnId, resultCode |-> txn.resultCode,
   approved |-> txn.approved, pending |-> txn.pending, status |-> status]
\* {event}, kept as the event's type and transaction id
EventPayload(event) ==
  [event |-> event.type,
   gatewayTxnId |-> IF event.txn = Undefined THEN Null ELSE event.txn.gatewayTxnId]
TokenRecord(registrationId) == [id |-> registrationId]
\* event.registration?.registrationId
RegistrationIdOf_WrongProperty(event) == Null
RegistrationIdOf(event) ==
  IF event.registration \in {Undefined, NullObj} THEN Null
  ELSE event.registration.registrationId

\* first part of handleWebhook: decrypt and verify, then await svc.saveWebhook
HandleWebhook(rawBody, headers) ==
  /\ Len(tasks) < MaxCalls
  /\ LET t == Len(tasks) + 1
         out == decryptAndVerifyWebhook(webhookSecret, rawBody, headers)
         w == [payload |-> out.decryptedJson, event |-> Null,
               verified |-> out.verified, idempotencyKey |-> out.idempotencyKey]
     IN  IF out.threw # "no"
           THEN /\ tasks' = Append(tasks, [op |-> "handleWebhook", pc |-> "threw",
                                           error |-> out.threw,
                                           delivery |-> <<rawBody, headers>>])
                /\ UNCHANGED <<svc, trace>>
         ELSE /\ svc' = saveWebhook(svc, w)
              /\ trace' = Append(trace, Entry(t, "svc.saveWebhook", w))
              /\ tasks' = Append(tasks, [op |-> "handleWebhook", pc |-> "saveWebhook",
                                         out |-> out, event |-> Undefined,
                                         delivery |-> <<rawBody, headers>>])
  /\ UNCHANGED <<webhookSecret, now, facade, fn, arg, ret>>

\* the handlers up to their first await
onPaymentSuccess(t, event) ==
  LET ui == mapResultCodeToUiMessage(event.txn.resultCode)
      rec == TxnRecord(event.txn, "success", ui)
  IN  /\ svc' = saveTransaction(svc, rec)
      /\ trace' = trace \o <<Entry(t, "onPaymentSuccess", NullObj),
                             Entry(t, "svc.saveTransaction", rec)>>
      /\ tasks' = SetTask(t, [tasks[t] EXCEPT !.pc = "onPaymentSuccess.saveTransaction",
                                              !.event = event])

onPaymentFailed(t, event) ==
  LET ui == mapResultCodeToUiMessage(event.txn.resultCode)
      rec == TxnRecord(event.txn, "failed", ui)
  IN  /\ svc' = saveTransaction(svc, rec)
      /\ trace' = trace \o <<Entry(t, "onPaymentFailed", NullObj),
                             Entry(t, "svc.saveTransaction", rec)>>
      /\ tasks' = SetTask(t, [tasks[t] EXCEPT !.pc = "deny.saveTransaction",
                                              !.event = event])

onRefund(t, event) ==
  LET rec == TxnRecordNoMessage(event.txn, "refunded")
  IN  /\ svc' = saveTransaction(svc, rec)
      /\ trace' = trace \o <<Entry(t, "onRefund", NullObj),
                             Entry(t, "svc.saveTransaction", rec)>>
      /\ tasks' = SetTask(t, [tasks[t] EXCEPT !.pc = "deny.saveTransaction",
                                              !.event = event])

\* case "chargeback" routed to the refund handler
onChargeback_AsRefund(t, event) == onRefund(t, event)
onChargeback(t, event) ==
  LET rec == TxnRecordNoMessage(event.txn, "chargeback")
  IN  /\ svc' = saveTransaction(svc, rec)
      /\ trace' = trace \o <<Entry(t, "onChargeback", NullObj),
                             Entry(t, "svc.saveTransaction", rec)>>
      /\ tasks' = SetTask(t, [tasks[t] EXCEPT !.pc = "deny.saveTransaction",
                                              !.event = event])

onRegistrationCreated(t, event) ==
  LET tok == TokenRecord(RegistrationIdOf(event))
      has == Truthy(RegistrationIdOf(event))
  IN  /\ svc' = IF has THEN saveToken(svc, tok) ELSE svc
      /\ trace' = trace \o <<Entry(t, "onRegistrationCreated", NullObj)>>
                        \o IF has THEN <<Entry(t, "svc.saveToken", tok)>> ELSE <<>>
      /\ tasks' = SetTask(t, [tasks[t] EXCEPT !.pc = "done", !.event = event])

onRegistrationUpdated(t, event) ==
  LET tok == TokenRecord(RegistrationIdOf(event))
      has == Truthy(RegistrationIdOf(event))
  IN  /\ svc' = IF has THEN updateToken(svc, tok) ELSE svc
      /\ trace' = trace \o <<Entry(t, "onRegistrationUpdated", NullObj)>>
                        \o IF has THEN <<Entry(t, "svc.updateToken", tok)>> ELSE <<>>
      /\ tasks' = SetTask(t, [tasks[t] EXCEPT !.pc = "done", !.event = event])

onScheduleEvent(t, event) ==
  LET status == IF event.type = "schedule_canceled" THEN "canceled"
                ELSE IF event.type = "schedule_rescheduled" THEN "rescheduled"
                ELSE "active"
      fields == IF event.schedule = NullObj
                  THEN [scheduleId |-> Null, subscriptionId |-> Null]
                ELSE event.schedule
      sch == [scheduleId |-> fields.scheduleId, subscriptionId |-> fields.subscriptionId,
              status |-> status]
  IN  /\ svc' = upsertSchedule(svc, sch)
      /\ trace' = trace \o <<Entry(t, "onScheduleEvent", NullObj),
                             Entry(t, "svc.upsertSchedule", sch)>>
      /\ tasks' = SetTask(t, [tasks[t] EXCEPT !.pc = "done", !.event = event])

\* Logger.writeLog only
onRiskEvent(t, event) ==
  /\ trace' = Append(trace, Entry(t, "onRiskEvent", NullObj))
  /\ tasks' = SetTask(t, [tasks[t] EXCEPT !.pc = "done", !.event = event])
  /\ UNCHANGED svc

\* after the await of svc.saveWebhook: classify and route
RouteWebhook(t) ==
  /\ tasks[t].op = "handleWebhook" /\ tasks[t].pc = "saveWebhook"
  /\ LET event == mapWebhookEvent(tasks[t].out.decryptedJson)
     IN  CASE event.type = "payment_success" -> onPaymentSuccess(t, event)
           [] event.type = "payment_failed" -> onPaymentFailed(t, event)
           [] event.type = "refund" -> onRefund(t, event)
           [] event.type = "chargeback" -> onChargeback(t, event)
           [] event.type = "registration_created" -> onRegistrationCreated(t, event)
           [] event.type = "registration_updated" -> onRegistrationUpdated(t, event)
           [] event.type \in {"schedule_created", "schedule_rescheduled",
                              "schedule_canceled"} -> onScheduleEvent(t, event)
           [] event.type \in {"risk_flagged", "risk_cleared"} -> onRiskEvent(t, event)
           [] OTHER -> \* default: Logger.writeLog, return {ok: true}
                /\ tasks' = SetTask(t, [tasks[t] EXCEPT !.pc = "done", !.event = event])
                /\ UNCHANGED <<svc, trace>>
  /\ UNCHANGED <<webhookSecret, now, facade, fn, arg, ret>>

\* onPaymentSuccess after the await of svc.saveTransaction
OnPaymentSuccessResume(t) ==
  /\ tasks[t].op = "handleWebhook"
  /\ LET event == tasks[t].event
         tok == TokenRecord(RegistrationIdOf(event))
     IN  \/ /\ tasks[t].pc = "onPaymentSuccess.saveTransaction"
            /\ Truthy(RegistrationIdOf(event))
            /\ svc' = saveToken(svc, tok)
            /\ trace' = Append(trace, Entry(t, "svc.saveToken", tok))
            /\ tasks' = SetTask(t, [tasks[t] EXCEPT !.pc = "onPaymentSuccess.saveToken"])
         \/ /\ \/ tasks[t].pc = "onPaymentSuccess.saveToken"
               \/ /\ tasks[t].pc = "onPaymentSuccess.saveTransaction"
                  /\ ~Truthy(RegistrationIdOf(event))
            /\ svc' = grantAccess(svc, EventPayload(event))
            /\ trace' = Append(trace, Entry(t, "svc.grantAccess", EventPayload(event)))
            /\ tasks' = SetTask(t, [tasks[t] EXCEPT !.pc = "done"])
  /\ UNCHANGED <<webhookSecret, now, facade, fn, arg, ret>>

\* onPaymentFailed, onRefund, onChargeback after the await of svc.saveTransaction
DenyResume(t) ==
  /\ tasks[t].op = "handleWebhook" /\ tasks[t].pc = "deny.saveTransaction"
  /\ svc' = denyAccess(svc, EventPayload(tasks[t].event))
  /\ trace' = Append(trace, Entry(t, "svc.denyAccess", EventPayload(tasks[t].event)))
  /\ tasks' = SetTask(t, [tasks[t] EXCEPT !.pc = "done"])
  /\ UNCHANGED <<webhookSecret, now, facade, fn, arg, ret>>

----------------------------------------------------------------------------
(* handleWebhook over a facade whose methods may throw.  A rejected call is   *)
(* recorded in the history like a call, changes no collection, and the task   *)
(* keeps the index of that entry in failedAt.                                 *)

FacadeError == "persistence failed"

\* the handler entry and the first facade call of the handler that `event` is routed to
FirstCall(t, event) ==
  LET status == IF event.type = "schedule_canceled" THEN "canceled"
                ELSE IF event.type = "schedule_rescheduled" THEN "rescheduled"
                ELSE "active"
      fields == IF event.schedule = NullObj
                  THEN [scheduleId |-> Null, subscriptionId |-> Null]
                ELSE event.schedule
      tok == TokenRecord(RegistrationIdOf(event))
  IN  CASE event.type = "payment_success" ->
             <<Entry(t, "onPaymentSuccess", NullObj),
               Entry(t, "svc.saveTransaction",
                     TxnRecord(event.txn, "success",
                               mapResultCodeToUiMessage(event.txn.resultCode)))>>
        [] event.type = "payment_failed" ->
             <<Entry(t, "onPaymentFailed", NullObj),
               Entry(t, "svc.saveTransaction",
                     TxnRecord(event.txn, "failed",
                               mapResultCodeToUiMessage(event.txn.resultCode)))>>
        [] event.type = "refund" ->
             <<Entry(t, "onRefund", NullObj),
               Entry(t, "svc.saveTransaction", TxnRecordNoMessage(event.txn, "refunded"))>>
        [] event.type = "chargeback" ->
             <<Entry(t, "onChargeback", NullObj),
               Entry(t, "svc.saveTransaction", TxnRecordNoMessage(event.txn, "chargeback"))>>
        [] event.type = "registration_created" /\ Truthy(RegistrationIdOf(event)) ->
             <<Entry(t, "onRegistrationCreated", NullObj), Entry(t, "svc.saveToken", tok)>>
        [] event.type = "registration_updated" /\ Truthy(RegistrationIdOf(event)) ->
             <<Entry(t, "onRegistrationUpdated", NullObj), Entry(t, "svc.updateToken", tok)>>
        [] event.type \in {"schedule_created", "schedule_rescheduled", "schedule_canceled"} ->
             <<Entry(t, "onScheduleEvent", NullObj),
               Entry(t, "svc.upsertSchedule",
                     [scheduleId |-> fields.scheduleId,
                      subscriptionId |-> fields.subscriptionId, status |-> status])>>
        [] OTHER -> <<>>

\* what the task appends to the history up to and including its next facade call
PendingCall(t) ==
  LET task == tasks[t]
  IN  CASE task.pc = "saveWebhook" -> FirstCall(t, mapWebhookEvent(task.out.decryptedJson))
        [] task.pc = "onPaymentSuccess.saveTransaction" ->
             IF Truthy(RegistrationIdOf(task.event))
               THEN <<Entry(t, "svc.saveToken", TokenRecord(RegistrationIdOf(task.event)))>>
             ELSE <<Entry(t, "svc.grantAccess", EventPayload(task.event))>>
        [] task.pc = "onPaymentSuccess.saveToken" ->
             <<Entry(t, "svc.grantAccess", EventPayload(task.event))>>
        [] task.pc = "deny.saveTransaction" ->
             <<Entry(t, "svc.denyAccess", EventPayload(task.event))>>
        [] OTHER -> <<>>

\* catch (e) { ErrorHandler.add_error(...); } without the rethrow
CatchRouting_Swallowed(e) == [pc |-> "done"]
\* catch (e) { ErrorHandler.add_error(...); throw e; }
CatchRouting(e) == [pc |-> "rejected", error |-> e]

\* handleWebhook when `await this.svc.saveWebhook(...)` rejects: outside the try
HandleWebhookSaveThrows(rawBody, headers) ==
  /\ facade = "faulty"
  /\ Len(tasks) < MaxCalls
  /\ LET t == Len(tasks) + 1
         out == decryptAndVerifyWebhook(webhookSecret, rawBody, headers)
         w == [payload |-> out.decryptedJson, event |-> Null,
               verified |-> out.verified, idempotencyKey |-> out.idempotencyKey]
     IN  /\ out.threw = "no"
         /\ trace' = Append(trace, Entry(t, "svc.saveWebhook", w))
         /\ tasks' = Append(tasks, [op |-> "handleWebhook", pc |-> "rejected",
                                    error |-> FacadeError, failedAt |-> Len(trace) + 1,
                                    out |-> out, event |-> Undefined,
                                    delivery |-> <<rawBody, headers>>])
  /\ UNCHANGED <<svc, webhookSecret, now, facade, fn, arg, ret>>

\* the next facade call of a handler rejects: the handlers have no try/catch,
\* the await in handleWebhook's switch throws into its catch block
PersistenceThrows(t) ==
  /\ facade = "faulty"
  /\ tasks[t].op = "handleWebhook"
  /\ PendingCall(t) # <<>>
  /\ trace' = trace \o PendingCall(t)
  /\ tasks' = SetTask(t, CatchRouting(FacadeError)
                          @@ [failedAt |-> Len(trace) + Len(PendingCall(t))]
                          @@ tasks[t])
  /\ UNCHANGED <<svc, webhookSecret, now, facade, fn, arg, ret>>

\* a route that answers 200 whatever handleWebhook did
WebhookRouteStatus_Always200(task) == 200
\* router.post("/api/webhooks/axcess"): 200 when handleWebhook resolves, 400 when it throws
WebhookRouteStatus(task) == IF task.pc = "done" THEN 200 ELSE 400

----------------------------------------------------------------------------
(* Checkout sessions *)

\* config.session.checkoutExpiryMinutes
checkoutExpiryMinutes == 25
MsPerMinute == 60 * 1000

\* a number field: [num |-> n], or Absent when the record has none
Num(n) == [num |-> n]
\* !x for a number-or-undefined field
FalsyNum(x) == x = Absent \/ x.num = 0

\* the TTL comparison left out
isCheckoutSessionValid_IgnoresTtl(session, nowMs, minutes) ==
  ~(session = NullObj \/ session.status # "pending" \/ FalsyNum(session.createdAt))
isCheckoutSessionValid(session, nowMs, minutes) ==
  IF session = NullObj \/ session.status # "pending" \/ FalsyNum(session.createdAt)
    THEN FALSE
  ELSE LET ms == minutes * MsPerMinute
       IN  nowMs - session.createdAt.num < ms

\* a status check that lets every answer through
Is2xx_Any(status) == TRUE
Is2xx(status) == status >= 200 /\ status < 300

\* crypto.randomUUID(): an id no other call draws
RandomUUID(t) == <<"u","u","i","d","-", HexDigits[t + 1]>>
\* res.data?.id
DataId(res) == IF res.data = Absent THEN Null ELSE res.data.id
HttpRequest(method, path) == [method |-> method, path |-> path]

\* createCheckoutSession up to the await of svc.getSessionsBy
CreateCheckoutSession(userId, orderId) ==
  /\ Len(tasks) < MaxCalls
  /\ LET t == Len(tasks) + 1
         existing == getSessionsBy(svc, "orderId", orderId)
     IN  /\ trace' = Append(trace, Entry(t, "svc.getSessionsBy", [orderId |-> orderId]))
         /\ tasks' = Append(tasks, [op |-> "createCheckoutSession",
                                    pc |-> "checkout.getSessionsBy",
                                    userId |-> userId, orderId |-> orderId,
                                    existing |-> existing, checkedAt |-> Absent,
                                    result |-> Undefined])
  /\ UNCHANGED <<svc, webhookSecret, now, facade, fn, arg, ret>>

\* createCheckoutSession after the await of svc.getSessionsBy: the reuse of a
\* valid session, or the POST to /v1/checkouts
CheckoutLookupResume(t) ==
  /\ tasks[t].op = "createCheckoutSession" /\ tasks[t].pc = "checkout.getSessionsBy"
  /\ LET task == tasks[t]
         valid == SelectSeq(task.existing,
                            LAMBDA x : isCheckoutSessionValid(x, now, checkoutExpiryMinutes))
     IN  IF valid # <<>>
           THEN LET reusable == Head(valid)
                IN  /\ tasks' = SetTask(t, [task EXCEPT
                           !.pc = "done", !.checkedAt = Num(now),
                           !.result = [checkoutId |-> reusable.checkoutId,
                                       sessionId |-> reusable.id]])
                    /\ UNCHANGED trace
         ELSE /\ trace' = Append(trace, Entry(t, "http", HttpRequest("POST", <<"/v1/checkouts">>)))
              /\ tasks' = SetTask(t, [task EXCEPT !.pc = "checkout.http",
                                                  !.checkedAt = Num(now)])
  /\ UNCHANGED <<svc, webhookSecret, now, facade, fn, arg, ret>>

\* createCheckoutSession once the gateway has answered: the failure, or the new
\* session record and svc.saveSession
CheckoutHttpResume(t, res) ==
  /\ tasks[t].op = "createCheckoutSession" /\ tasks[t].pc = "checkout.http"
  /\ LET task == tasks[t]
         sessionRecord == [id |-> RandomUUID(t), userId |-> task.userId,
                           orderId |-> task.orderId, checkoutId |-> DataId(res),
                           status |-> "pending", createdAt |-> Num(now)]
     IN  IF ~Is2xx(res.status) \/ ~Truthy(DataId(res))
           THEN /\ tasks' = SetTask(t, [op |-> "createCheckoutSession", pc |-> "threw",
                                        error |-> "Failed to create Axcess checkout session",
                                        existing |-> task.existing,
                                        checkedAt |-> task.checkedAt])
                /\ UNCHANGED <<svc, trace>>
         ELSE /\ svc' = saveSession(svc, sessionRecord)
              /\ trace' = Append(trace, Entry(t, "svc.saveSession", sessionRecord))
              /\ tasks' = SetTask(t, [task EXCEPT
                     !.pc = "done",
                     !.result = [checkoutId |-> DataId(res), sessionId |-> sessionRecord.id]])
  /\ UNCHANGED <<webhookSecret, now, facade, fn, arg, ret>>

\* the clock advances by one TTL; only the age of a stored session depends on it,
\* so time that passes before the first session is stored is left out
Tick ==
  /\ svc.sessions # <<>>
  /\ now < StartTime + MaxTicks * checkoutExpiryMinutes * MsPerMinute
  /\ now' = now + checkoutExpiryMinutes * MsPerMinute
  /\ UNCHANGED <<svc, webhookSecret, facade, tasks, trace, fn, arg, ret>>

----------------------------------------------------------------------------
(* Synchronous paths: S2S calls and the redirect callback *)

StatusOf(normalized) ==
  IF normalized.approved THEN "success"
  ELSE IF normalized.pending THEN "pending"
  ELSE "failed"

\* {txn}, kept as the transaction's id and status
TxnPayload(record) == [gatewayTxnId |-> record.gatewayTxnId, status |-> record.status]

\* an s2s method once the gateway has answered: _handleS2SResponse(res, label) up to
\* the await of svc.saveTransaction
S2SCall(label, res) ==
  /\ Len(tasks) < MaxCalls
  /\ LET t == Len(tasks) + 1
         normalized == _normalizePaymentResult(DataOrEmpty(res))
         record == [type |-> label,
                    gatewayTxnId |-> Or(normalized.id, Null),
                    status |-> StatusOf(normalized),
                    code |-> Or(normalized.resultCode, Null),
                    uiMessage |-> mapResultCodeToUiMessage(normalized.resultCode).uiMessage]
     IN  IF ~Is2xx(res.status)
           THEN /\ tasks' = Append(tasks, [op |-> "s2s", pc |-> "threw",
                                           error |-> "HTTP error",
                                           label |-> label, res |-> res])
                /\ UNCHANGED <<svc, trace>>
         ELSE /\ svc' = saveTransaction(svc, record)
              /\ trace' = Append(trace, Entry(t, "svc.saveTransaction", record))
              /\ tasks' = Append(tasks, [op |-> "s2s", pc |-> "s2s.saveTransaction",
                                         record |-> record,
                                         label |-> label, res |-> res])
  /\ UNCHANGED <<webhookSecret, now, facade, fn, arg, ret>>

\* _handleS2SResponse after the await of svc.saveTransaction
S2SResume(t) ==
  /\ tasks[t].op = "s2s" /\ tasks[t].pc = "s2s.saveTransaction"
  /\ LET record == tasks[t].record
     IN  IF record.status = "success"
           THEN /\ svc' = grantAccess(svc, TxnPayload(record))
                /\ trace' = Append(trace, Entry(t, "svc.grantAccess", TxnPayload(record)))
                /\ tasks' = SetTask(t, [tasks[t] EXCEPT !.pc = "done"])
         ELSE IF record.status = "failed"
           THEN /\ svc' = denyAccess(svc, TxnPayload(record))
                /\ trace' = Append(trace, Entry(t, "svc.denyAccess", TxnPayload(record)))
                /\ tasks' = SetTask(t, [tasks[t] EXCEPT !.pc = "done"])
         ELSE /\ tasks' = SetTask(t, [tasks[t] EXCEPT !.pc = "done"])
              /\ UNCHANGED <<svc, trace>>
  /\ UNCHANGED <<webhookSecret, now, facade, fn, arg, ret>>

\* handleRedirectCallback once getPaymentStatus has answered, up to the await of
\* svc.saveTransaction
HandleRedirectCallback(orderId, userId, res) ==
  /\ Len(tasks) < MaxCalls
  /\ LET t == Len(tasks) + 1
         normalized == _normalizePaymentResult(res.data)
         txn == [orderId |-> orderId, userId |-> userId,
                 gatewayTxnId |-> Or(normalized.id, Null),
                 status |-> StatusOf(normalized),
                 code |-> Or(normalized.resultCode, Null),
                 uiMessage |-> mapResultCodeToUiMessage(normalized.resultCode).uiMessage]
     IN  IF ~Is2xx(res.status)
           THEN /\ tasks' = Append(tasks, [op |-> "redirect", pc |-> "threw",
                                           error |-> "Failed to fetch Axcess payment status",
                                           res |-> res])
                /\ UNCHANGED <<svc, trace>>
         ELSE IF res.data = NullObj
           \* _normalizePaymentResult(null): the default {} stands in for undefined only
           THEN /\ tasks' = Append(tasks, [op |-> "redirect", pc |-> "threw",
                                           error |-> "TypeError", res |-> res])
                /\ UNCHANGED <<svc, trace>>
         ELSE /\ svc' = saveTransaction(svc, txn)
              /\ trace' = Append(trace, Entry(t, "svc.saveTransaction", txn))
              /\ tasks' = Append(tasks, [op |-> "redirect", pc |-> "redirect.saveTransaction",
                                         txn |-> txn, normalizedId |-> normalized.id,
                                         sessions |-> <<>>, found |-> <<>>,
                                         res |-> res])
  /\ UNCHANGED <<webhookSecret, now, facade, fn, arg, ret>>

\* the sessions of the snapshot that the loop updates
NeedsUpdate(task, s) ==
  Truthy(s.checkoutId) /\ Truthy(task.normalizedId) /\ s.status = "pending"

\* handleRedirectCallback after the await of svc.saveTransaction: the entitlement
\* call if any, then the lookup of the order's sessions, then one saveSession per
\* pending session, each followed by an await
RedirectResume(t) ==
  /\ tasks[t].op = "redirect"
  /\ LET task == tasks[t]
         lookup == getSessionsBy(svc, "orderId", task.txn.orderId)
         todo == SelectSeq(task.sessions, LAMBDA s : NeedsUpdate(task, s))
     IN  IF task.pc = "redirect.saveTransaction" /\ task.txn.status = "success"
           THEN /\ svc' = grantAccess(svc, TxnPayload(task.txn))
                /\ trace' = Append(trace, Entry(t, "svc.grantAccess", TxnPayload(task.txn)))
                /\ tasks' = SetTask(t, [task EXCEPT !.pc = "redirect.entitle"])
         ELSE IF task.pc = "redirect.saveTransaction" /\ task.txn.status = "failed"
           THEN /\ svc' = denyAccess(svc, TxnPayload(task.txn))
                /\ trace' = Append(trace, Entry(t, "svc.denyAccess", TxnPayload(task.txn)))
                /\ tasks' = SetTask(t, [task EXCEPT !.pc = "redirect.entitle"])
         ELSE IF task.pc \in {"redirect.saveTransaction", "redirect.entitle"}
           THEN /\ tasks' = SetTask(t, [task EXCEPT !.pc = "redirect.sessions",
                                                    !.sessions = lookup,
                                                    !.found = lookup])
                /\ UNCHANGED <<svc, trace>>
         ELSE /\ task.pc = "redirect.sessions"
              /\ IF todo = <<>>
                   THEN /\ tasks' = SetTask(t, [task EXCEPT !.pc = "done",
                                                            !.sessions = <<>>])
                        /\ UNCHANGED <<svc, trace>>
                 ELSE LET x == [Head(todo) EXCEPT !.status = task.txn.status]
                      IN  /\ svc' = saveSession(svc, x)
                          /\ trace' = Append(trace, Entry(t, "svc.saveSession", x))
                          /\ tasks' = SetTask(t, [task EXCEPT !.sessions = Tail(todo)])
  /\ UNCHANGED <<webhookSecret, now, facade, fn, arg, ret>>

----------------------------------------------------------------------------
(* Subscriptions.  cancelSubscription, pauseSubscription, resumeSubscription and *)
(* upgradeSubscription share their inner calls: the position of a call is the    *)
(* await it is at, whichever method started it.                                  *)

\* the record _handleS2SResponse saves
S2SRecord(label, res) ==
  LET normalized == _normalizePaymentResult(DataOrEmpty(res))
  IN  [type |-> label,
       gatewayTxnId |-> Or(normalized.id, Null),
       status |-> StatusOf(normalized),
       code |-> Or(normalized.resultCode, Null),
       uiMessage |-> mapResultCodeToUiMessage(normalized.resultCode).uiMessage]

ScheduleRecord(scheduleId, status) ==
  [scheduleId |-> scheduleId, subscriptionId |-> Null, status |-> status]

SubscriptionsPath(subscriptionId) == <<"/v1/subscriptions/", subscriptionId>>

\* !cleaned.newRecurring.registrationId
MissingRegistrationId_Unchecked(newRecurring) == FALSE
MissingRegistrationId(newRecurring) == ~Truthy(newRecurring.registrationId)

\* cancelSubscription and pauseSubscription up to the DELETE request
CancelSubscription(op, subscriptionId) ==
  /\ Len(tasks) < MaxCalls
  /\ LET t == Len(tasks) + 1
     IN  /\ trace' = Append(trace, Entry(t, "http",
                              HttpRequest("DELETE", SubscriptionsPath(subscriptionId))))
         /\ tasks' = Append(tasks, [op |-> op, pc |-> "cancel.http",
                                    subscriptionId |-> subscriptionId,
                                    reason |-> IF op = "pauseSubscription" THEN "pause"
                                               ELSE "none",
                                    answer |-> Undefined])
  /\ UNCHANGED <<svc, webhookSecret, now, facade, fn, arg, ret>>

\* resumeSubscription: createSubscriptionFromToken up to the POST request
ResumeSubscription(registrationId) ==
  /\ Len(tasks) < MaxCalls
  /\ LET t == Len(tasks) + 1
     IN  /\ trace' = Append(trace, Entry(t, "http", HttpRequest("POST", <<"/v1/subscriptions">>)))
         /\ tasks' = Append(tasks, [op |-> "resumeSubscription", pc |-> "create.http",
                                    registrationId |-> registrationId])
  /\ UNCHANGED <<svc, webhookSecret, now, facade, fn, arg, ret>>

\* upgradeSubscription up to the POST of the proration debit
UpgradeSubscription(subscriptionId, newRecurring) ==
  /\ Len(tasks) < MaxCalls
  /\ LET t == Len(tasks) + 1
     IN  IF MissingRegistrationId(newRecurring)
           THEN /\ tasks' = Append(tasks,
                      [op |-> "upgradeSubscription", pc |-> "threw",
                       error |-> "upgradeSubscription requires newRecurring.registrationId",
                       newRecurring |-> newRecurring])
                /\ UNCHANGED trace
         ELSE /\ trace' = Append(trace, Entry(t, "http",
                     HttpRequest("POST", <<"/v1/registrations/", newRecurring.registrationId,
                                           "/payments">>)))
              /\ tasks' = Append(tasks, [op |-> "upgradeSubscription", pc |-> "debit.http",
                                         subscriptionId |-> subscriptionId,
                                         reason |-> "upgrade",
                                         registrationId |-> newRecurring.registrationId,
                                         newRecurring |-> newRecurring,
                                         record |-> Undefined,
                                         answer |-> Undefined])
  /\ UNCHANGED <<svc, webhookSecret, now, facade, fn, arg, ret>>

\* upgradeSubscription with createSubscriptionFromToken ahead of cancelSubscription
CancelRequest_CreateFirst(t) ==
  /\ trace' = Append(trace, Entry(t, "http", HttpRequest("POST", <<"/v1/subscriptions">>)))
  /\ tasks' = SetTask(t, [tasks[t] EXCEPT !.pc = "create.http"])
  /\ UNCHANGED svc
\* the DELETE request of cancelSubscription, made by upgradeSubscription once
\* debitWithRegistrationToken has returned
CancelRequest(t) ==
  /\ trace' = Append(trace, Entry(t, "http",
                       HttpRequest("DELETE", SubscriptionsPath(tasks[t].subscriptionId))))
  /\ tasks' = SetTask(t, [tasks[t] EXCEPT !.pc = "cancel.http"])
  /\ UNCHANGED svc

\* debitWithRegistrationToken once the gateway has answered, then
\* _handleS2SResponse from one await to the next
DebitResume(t, res) ==
  /\ tasks[t].op = "upgradeSubscription"
  /\ LET task == tasks[t]
         record == S2SRecord("debit_token", res)
     IN  CASE task.pc = "debit.http" /\ res # NullObj ->
                IF ~Is2xx(res.status)
                  THEN /\ tasks' = SetTask(t, [task EXCEPT !.pc = "threw"])
                       /\ UNCHANGED <<svc, trace>>
                ELSE /\ svc' = saveTransaction(svc, record)
                     /\ trace' = Append(trace, Entry(t, "svc.saveTransaction", record))
                     /\ tasks' = SetTask(t, [task EXCEPT !.pc = "debit.saveTransaction",
                                                         !.record = record])
          [] task.pc = "debit.saveTransaction" /\ res = NullObj ->
                IF task.record.status = "success"
                  THEN /\ svc' = grantAccess(svc, TxnPayload(task.record))
                       /\ trace' = Append(trace, Entry(t, "svc.grantAccess",
                                                       TxnPayload(task.record)))
                       /\ tasks' = SetTask(t, [task EXCEPT !.pc = "debit.entitle"])
                ELSE IF task.record.status = "failed"
                  THEN /\ svc' = denyAccess(svc, TxnPayload(task.record))
                       /\ trace' = Append(trace, Entry(t, "svc.denyAccess",
                                                       TxnPayload(task.record)))
                       /\ tasks' = SetTask(t, [task EXCEPT !.pc = "debit.entitle"])
                ELSE CancelRequest(t)
          [] task.pc = "debit.entitle" /\ res = NullObj -> CancelRequest(t)
          [] OTHER -> FALSE
  /\ UNCHANGED <<webhookSecret, now, facade, fn, arg, ret>>

\* cancelSubscription once the gateway has answered, and what follows the await
\* of svc.upsertSchedule in pauseSubscription and upgradeSubscription
CancelResume(t, res) ==
  /\ tasks[t].op \in {"cancelSubscription", "pauseSubscription", "upgradeSubscription"}
  /\ LET task == tasks[t]
         sch == [ScheduleRecord(task.subscriptionId, "canceled") EXCEPT
                   !.subscriptionId = Null]
         instr == [subscriptionId |-> task.subscriptionId]
     IN  CASE task.pc = "cancel.http" /\ res # NullObj ->
                IF Is2xx(res.status)
                  THEN /\ svc' = upsertSchedule(svc, sch)
                       /\ trace' = Append(trace, Entry(t, "svc.upsertSchedule", sch))
                       /\ tasks' = SetTask(t, [task EXCEPT
                              !.pc = IF task.op = "cancelSubscription" THEN "done"
                                     ELSE "cancel.upsertSchedule",
                              !.answer = res])
                ELSE /\ tasks' = SetTask(t, [task EXCEPT !.pc = "threw", !.answer = res])
                     /\ UNCHANGED <<svc, trace>>
          [] task.pc = "cancel.upsertSchedule" /\ res = NullObj ->
                IF task.op = "pauseSubscription"
                  THEN /\ svc' = saveResumeInstruction(svc, instr)
                       /\ trace' = Append(trace, Entry(t, "svc.saveResumeInstruction", instr))
                       /\ tasks' = SetTask(t, [task EXCEPT !.pc = "done"])
                ELSE /\ trace' = Append(trace, Entry(t, "http",
                                          HttpRequest("POST", <<"/v1/subscriptions">>)))
                     /\ tasks' = SetTask(t, [task EXCEPT !.pc = "create.http"])
                     /\ UNCHANGED svc
          [] OTHER -> FALSE
  /\ UNCHANGED <<webhookSecret, now, facade, fn, arg, ret>>

\* createSubscriptionFromToken once the gateway has answered
CreateResume(t, res) ==
  /\ tasks[t].op \in {"resumeSubscription", "upgradeSubscription"}
  /\ tasks[t].pc = "create.http"
  /\ LET task == tasks[t]
         schedule == [registrationId |-> task.registrationId,
                      scheduleId |-> Or(DataId(res), Null),
                      subscriptionId |-> Null,
                      status |-> "active"]
     IN  IF ~Is2xx(res.status)
           THEN /\ tasks' = SetTask(t, [task EXCEPT !.pc = "threw"])
                /\ UNCHANGED <<svc, trace>>
         ELSE /\ svc' = upsertSchedule(svc, schedule)
              /\ trace' = Append(trace, Entry(t, "svc.upsertSchedule", schedule))
              /\ tasks' = SetTask(t, [task EXCEPT !.pc = "done"])
  /\ UNCHANGED <<webhookSecret, now, facade, fn, arg, ret>>

----------------------------------------------------------------------------
(* Registration tokens *)

RegistrationsPath(registrationId) == <<"/v1/registrations/", registrationId>>

\* createRegistrationToken up to the await of testhttpRequest
CreateRegistrationToken ==
  /\ Len(tasks) < MaxCalls
  /\ LET t == Len(tasks) + 1
     IN  /\ trace' = Append(trace, Entry(t, "http", HttpRequest("POST", <<"/v1/registrations">>)))
         /\ tasks' = Append(tasks, [op |-> "createRegistrationToken", pc |-> "register.http",
                                    result |-> Undefined])
  /\ UNCHANGED <<svc, webhookSecret, now, facade, fn, arg, ret>>

\* createRegistrationToken once the gateway has answered: `return res`
CreateRegistrationTokenResume(t, res) ==
  /\ tasks[t].op = "createRegistrationToken" /\ tasks[t].pc = "register.http"
  /\ tasks' = SetTask(t, [tasks[t] EXCEPT !.pc = "done", !.result = res])
  /\ UNCHANGED <<svc, trace, webhookSecret, now, facade, fn, arg, ret>>

\* deleteRegistrationToken up to the DELETE request
DeleteRegistrationToken(registrationId) ==
  /\ Len(tasks) < MaxCalls
  /\ LET t == Len(tasks) + 1
     IN  /\ trace' = Append(trace, Entry(t, "http",
                              HttpRequest("DELETE", RegistrationsPath(registrationId))))
         /\ tasks' = Append(tasks, [op |-> "deleteRegistrationToken", pc |-> "delete.http",
                                    registrationId |-> registrationId,
                                    result |-> Undefined])
  /\ UNCHANGED <<svc, webhookSecret, now, facade, fn, arg, ret>>

\* deleteRegistrationToken once the gateway has answered
DeleteRegistrationTokenResume(t, res) ==
  /\ tasks[t].op = "deleteRegistrationToken" /\ tasks[t].pc = "delete.http"
  /\ IF Is2xx(res.status)
       THEN /\ svc' = deleteToken(svc, tasks[t].registrationId)
            /\ trace' = Append(trace, Entry(t, "svc.deleteToken",
                                            [id |-> tasks[t].registrationId]))
            /\ tasks' = SetTask(t, [tasks[t] EXCEPT !.pc = "done",
                                                    !.result = [value |-> TRUE]])
     ELSE /\ tasks' = SetTask(t, [tasks[t] EXCEPT !.pc = "done",
                                                  !.result = [value |-> FALSE]])
          /\ UNCHANGED <<svc, trace>>
  /\ UNCHANGED <<webhookSecret, now, facade, fn, arg, ret>>

----------------------------------------------------------------------------
(* Inputs of the calls *)

Res(code, description) == [code |-> code, description |-> description]
TxnObj(id, result, resultCode, registrationId) ==
  [id |-> id, transactionId |-> Null, result |-> result, resultCode |-> resultCode,
   registrationId |-> registrationId]
PaymentPayload(type, o, registrationId) ==
  Payload(type, Null, o, Absent, Absent, registrationId, Absent, Absent, Absent, Null)

\* a payment_success payload that carries an id, its idempotency key
P_keyed ==
  Payload(T_payment_success, Null, TxnObj(T1, Res(C_approved, Null), Null, Null),
          Absent, Absent, Null, Absent, Absent, Absent, E1)
HookPayloads ==
  {PaymentPayload(T_payment_success, TxnObj(T1, Res(C_approved, Null), Null, Null), Null),
   P_keyed,
   PaymentPayload(T_payment_success, TxnObj(T1, Res(C_approved, Null), Null, Null), R1),
   PaymentPayload(T_payment_success, TxnObj(T1, Absent, C_approved, Null), Null),
   PaymentPayload(T_payment_failed, TxnObj(T1, Res(C_declined, D_declined), Null, Null), Null),
   PaymentPayload(T_payment_pending, TxnObj(T1, Res(C_declined, D_pending), Null, Null), Null),
   PaymentPayload(T_refund_created, TxnObj(T1, Res(C_approved, Null), Null, Null), Null),
   PaymentPayload(T_chargeback, TxnObj(T1, Res(C_declined, Null), Null, Null), Null),
   PaymentPayload(T_registration_created, EmptyTxnObj, R1),
   PaymentPayload(T_registration_updated, EmptyTxnObj, R1),
   Payload(T_subscription_canceled, Null, Absent, Absent, Absent, Null, Absent,
           [scheduleId |-> S1, subscriptionId |-> Null], Absent, E1),
   Payload(T_subscription_created, Null, Absent, Absent, Absent, Null, Absent,
           [scheduleId |-> S1, subscriptionId |-> Null], Absent, E1),
   Payload(T_risk_flagged, Null, Absent, Absent, Absent, Null, Absent, Absent,
           CHOOSE r \in RiskObjs : TRUE, E1)}

SignatureOf(secret, text) == HexEncode(Hmac(_coerceKeyTo32Bytes(secret), text))
\* a hex string of the digest's length that differs from the digest
WrongSignature(secret, text) ==
  LET h == SignatureOf(secret, text)
  IN  <<(IF h[1] = "0" THEN "1" ELSE "0")>> \o Tail(h)

Headers(iv, sig) == [iv |-> iv, sig |-> sig]
PlainBody(text) == [kind |-> "plain", text |-> text]
AesBody(key, iv, text) == [kind |-> "aes", key |-> key, iv |-> iv, text |-> text]

\* signature header values for a plaintext
Signatures(text) ==
  {Null, <<>>,
   SignatureOf(SecretKey, text),
   <<"0","x">> \o SignatureOf(SecretKey, text),
   ToLowerCase(SignatureOf(SecretKey, text)),
   WrongSignature(SecretKey, text),
   SignatureOf(OtherKey, text),
   <<"a","b","c","d">>,
   <<"z","z">>,
   SubSeq(SignatureOf(SecretKey, text), 1, 63),
   SignatureOf(SecretKey, text) \o <<"0","0">>}

Bodies(text) ==
  {PlainBody(text),
   AesBody(_coerceKeyTo32Bytes(SecretKey), IV1, text),
   AesBody(_coerceKeyTo32Bytes(OtherKey), IV1, text)}

\* deliveries for decryptAndVerifyWebhook on its own
FnDeliveries ==
  {<<b, Headers(iv, sig)>> :
     b \in UNION {Bodies(text) : text \in {JsonText(p) : p \in HookPayloads} \cup {Malformed}},
     iv \in {Null, IV1, IV2},
     sig \in UNION {Signatures(text) : text \in {JsonText(p) : p \in HookPayloads}}}

\* deliveries handled by handleWebhook
P_success == PaymentPayload(T_payment_success, TxnObj(T1, Res(C_approved, Null), Null, Null), Null)
P_pending ==
  PaymentPayload(T_payment_pending, TxnObj(T1, Res(C_declined, D_pending), Null, Null), Null)
HookDeliveries ==
  {<<PlainBody(JsonText(p)), Headers(Null, Null)>> : p \in HookPayloads}
  \cup {<<PlainBody(JsonText(p)), Headers(Null, WrongSignature(SecretKey, JsonText(p)))>> :
          p \in {P_success, P_pending}}
  \cup {<<PlainBody(JsonText(P_success)), Headers(Null, <<"a","b","c","d">>)>>,
        <<AesBody(_coerceKeyTo32Bytes(SecretKey), IV1, JsonText(P_success)),
          Headers(IV1, SignatureOf(SecretKey, JsonText(P_success)))>>,
        <<AesBody(_coerceKeyTo32Bytes(SecretKey), IV1, JsonText(P_success)),
          Headers(Null, Null)>>,
        <<AesBody(_coerceKeyTo32Bytes(OtherKey), IV1, JsonText(P_success)),
          Headers(IV1, Null)>>,
        <<PlainBody(Malformed), Headers(Null, Null)>>}

\* result codes given to mapResultCodeToUiMessage: one per rule, the empty string,
\* garbage, near misses of a prefix, and codes with surrounding whitespace
C_invalid_card == P_800_400 \o <<"2","0","0">>
C_expired == P_700 \o <<"1","0","0",".","1","0","0">>
Padded(code) == {<<" ">> \o code, code \o <<" ">>, <<"\t">> \o code \o <<"\n">>,
                 <<" ", " ">> \o code \o <<" ">>}
ResultCodeInputs ==
  LET plain == Codes \cup {C_invalid_card, C_expired, P_000, P_700, <<>>,
                           <<"a","b","c">>, <<"x">> \o C_approved,
                           <<"2","0","0",".">>, <<"0","0","0"," ",".">>,
                           <<"7","0","0">>, <<"8","0","0",".","4","0","0">>}
  IN  plain \cup UNION {Padded(c) : c \in plain}

Data(id, result) ==
  [id |-> id, ndc |-> Null, paymentId |-> Null, result |-> result, resultCode |-> Null,
   resultDescription |-> Null]
\* data is null when the body of the answer is empty or is not JSON
Responses ==
  {[status |-> 500, data |-> Data(Null, Absent)], [status |-> 200, data |-> NullObj]}
  \cup {[status |-> 200, data |-> d] :
          d \in {Data(T1, Res(C_approved, Null)),
                 Data(T1, Res(C_declined, D_pending)),
                 Data(T1, Res(C_declined, D_declined))}}
\* answers to the status GET of handleRedirectCallback: also an approved one that
\* carries none of id, ndc and paymentId
StatusResponses ==
  Responses \cup {[status |-> 200, data |-> Data(Null, Res(C_approved, Null))]}
S2SLabels == {"debit", "refund", "void"}
O1 == <<"O","1">>
U1 == <<"U","1">>

K1 == <<"K","1">>
CheckoutResponses ==
  {[status |-> 500, data |-> Absent],
   [status |-> 200, data |-> Absent],
   [status |-> 200, data |-> [id |-> K1]]}

S2 == <<"S","2">>
\* answers to DELETE /v1/subscriptions/{id} and /v1/registrations/{id}
DeleteResponses == {[status |-> 200, data |-> Absent], [status |-> 500, data |-> Absent]}
\* answers to POST /v1/subscriptions: the gateway names the new schedule, or not
SubscriptionResponses ==
  {[status |-> 500, data |-> Absent],
   [status |-> 200, data |-> Absent],
   [status |-> 200, data |-> [id |-> S2]]}
\* answers to POST /v1/registrations
RegistrationResponses ==
  {[status |-> 200, data |-> [id |-> R1]], [status |-> 500, data |-> Absent]}
NewRecurrings == {[registrationId |-> R1], [registrationId |-> Null]}

\* session records, clock values and TTLs given to isCheckoutSessionValid
Minutes == {1, checkoutExpiryMinutes}
Instants ==
  {0, 1} \cup UNION {{m * MsPerMinute - 1, m * MsPerMinute, m * MsPerMinute + 1} : m \in Minutes}
SessionRecords ==
  {NullObj} \cup
  {[id |-> S1, orderId |-> O1, checkoutId |-> Null, status |-> st, createdAt |-> c] :
     st \in {"pending", "success", "failed"},
     c \in {Absent} \cup {Num(n) : n \in Instants}}
SessionChecks == {[session |-> x, minutes |-> m] : x \in SessionRecords, m \in Minutes}

----------------------------------------------------------------------------
(* The adapter with its calls interleaved at their awaits *)

Init ==
  /\ svc = NewService
  /\ webhookSecret \in {SecretKey, Null}
  /\ now = StartTime
  /\ facade = "mock"
  /\ tasks = <<>>
  /\ trace = <<>>
  /\ fn = "none" /\ arg = NullObj /\ ret = NotCalled

TaskIds == 1..Len(tasks)

Next ==
  \/ \E d \in HookDeliveries : HandleWebhook(d[1], d[2])
  \/ \E t \in TaskIds : RouteWebhook(t)
  \/ \E t \in TaskIds : OnPaymentSuccessResume(t)
  \/ \E t \in TaskIds : DenyResume(t)
  \/ \E label \in S2SLabels, res \in Responses : S2SCall(label, res)
  \/ \E t \in TaskIds : S2SResume(t)
  \/ \E res \in StatusResponses : HandleRedirectCallback(O1, U1, res)
  \/ \E t \in TaskIds : RedirectResume(t)
  \/ CreateCheckoutSession(U1, O1)
  \/ \E t \in TaskIds : CheckoutLookupResume(t)
  \/ \E t \in TaskIds, res \in CheckoutResponses : CheckoutHttpResume(t, res)
  \/ \E op \in {"cancelSubscription", "pauseSubscription"} : CancelSubscription(op, S1)
  \/ ResumeSubscription(R1)
  \/ \E r \in NewRecurrings : UpgradeSubscription(S1, r)
  \/ \E t \in TaskIds, res \in Responses \cup {NullObj} : DebitResume(t, res)
  \/ \E t \in TaskIds, res \in DeleteResponses \cup {NullObj} : CancelResume(t, res)
  \/ \E t \in TaskIds, res \in SubscriptionResponses : CreateResume(t, res)
  \/ CreateRegistrationToken
  \/ \E t \in TaskIds, res \in RegistrationResponses : CreateRegistrationTokenResume(t, res)
  \/ DeleteRegistrationToken(R1)
  \/ \E t \in TaskIds, res \in DeleteResponses : DeleteRegistrationTokenResume(t, res)
  \/ Tick

Spec == Init /\ [][Next]_vars

----------------------------------------------------------------------------
(* handleWebhook over the throwing facade *)

InitFaulty ==
  /\ svc = NewService
  /\ webhookSecret \in {SecretKey, Null}
  /\ now = StartTime
  /\ facade = "faulty"
  /\ tasks = <<>>
  /\ trace = <<>>
  /\ fn = "none" /\ arg = NullObj /\ ret = NotCalled

NextFaulty ==
  \/ \E d \in HookDeliveries : HandleWebhook(d[1], d[2])
  \/ \E d \in HookDeliveries : HandleWebhookSaveThrows(d[1], d[2])
  \/ \E t \in TaskIds : RouteWebhook(t)
  \/ \E t \in TaskIds : OnPaymentSuccessResume(t)
  \/ \E t \in TaskIds : DenyResume(t)
  \/ \E t \in TaskIds : PersistenceThrows(t)

SpecFaulty == InitFaulty /\ [][NextFaulty]_vars

----------------------------------------------------------------------------
(* handleWebhook behind the webhook route, with a gateway that delivers one     *)
(* webhook and delivers it again after every answer that is not 2xx, over a     *)
(* facade whose calls reject a bounded number of times.                         *)

\* the deliveries the gateway makes: well-formed, to a configured adapter
RetryDeliveries == {<<PlainBody(JsonText(p)), Headers(Null, Null)>> : p \in HookPayloads}

InitRetry ==
  /\ svc = NewService
  /\ webhookSecret = SecretKey
  /\ now = StartTime
  /\ facade = "faulty"
  /\ tasks = <<>>
  /\ trace = <<>>
  /\ fn = "none" /\ arg = NullObj /\ ret = NotCalled

\* the facade still has a rejection left: it rejects fewer times than the gateway delivers
FaultsLeft ==
  Cardinality({t \in TaskIds : "failedAt" \in DOMAIN tasks[t]}) < MaxCalls - 1

\* the route has answered the latest delivery, and not with 2xx
AnsweredNon2xx ==
  /\ tasks # <<>>
  /\ tasks[Len(tasks)].pc \in {"rejected", "threw"}
  /\ ~Is2xx(WebhookRouteStatus(tasks[Len(tasks)]))

\* what the gateway delivers next: any webhook at first, then the one it has to
\* deliver again
Due ==
  {d \in RetryDeliveries :
     tasks = <<>> \/ (AnsweredNon2xx /\ d = tasks[Len(tasks)].delivery)}

NextRetry ==
  \/ \E d \in Due : HandleWebhook(d[1], d[2])
  \/ \E d \in Due : FaultsLeft /\ HandleWebhookSaveThrows(d[1], d[2])
  \/ \E t \in TaskIds : RouteWebhook(t)
  \/ \E t \in TaskIds : OnPaymentSuccessResume(t)
  \/ \E t \in TaskIds : DenyResume(t)
  \/ \E t \in TaskIds : FaultsLeft /\ PersistenceThrows(t)

\* every awaited call settles and the gateway keeps its promise to deliver again
SpecRetry == InitRetry /\ [][NextRetry]_vars /\ WF_vars(NextRetry)

----------------------------------------------------------------------------
(* One application of a pure method to one argument *)

InitFn ==
  /\ svc = NewService
  /\ facade = "mock"
  /\ tasks = <<>>
  /\ trace = <<>>
  /\ ret = NotCalled
  /\ \/ fn = "mapWebhookEvent" /\ arg \in FnPayloads
        /\ webhookSecret = SecretKey /\ now = StartTime
     \/ fn = "_normalizePaymentResult" /\ arg \in GatewayData
        /\ webhookSecret = SecretKey /\ now = StartTime
     \/ fn = "mapResultCodeToUiMessage" /\ arg \in ResultCodeInputs
        /\ webhookSecret = SecretKey /\ now = StartTime
     \/ fn = "isCheckoutSessionValid" /\ arg \in SessionChecks
        /\ webhookSecret = SecretKey /\ now \in Instants
     \/ fn = "decryptAndVerifyWebhook" /\ arg \in FnDeliveries
        /\ webhookSecret \in {SecretKey, OtherKey, Null} /\ now = StartTime

CallMapWebhookEvent ==
  /\ fn = "mapWebhookEvent" /\ ret = NotCalled
  /\ ret' = mapWebhookEvent(arg)
  /\ UNCHANGED <<svc, webhookSecret, now, facade, tasks, trace, fn, arg>>

CallNormalizePaymentResult ==
  /\ fn = "_normalizePaymentResult" /\ ret = NotCalled
  /\ ret' = _normalizePaymentResult(arg)
  /\ UNCHANGED <<svc, webhookSecret, now, facade, tasks, trace, fn, arg>>

CallDecryptAndVerifyWebhook ==
  /\ fn = "decryptAndVerifyWebhook" /\ ret = NotCalled
  /\ ret' = decryptAndVerifyWebhook(webhookSecret, arg[1], arg[2])
  /\ UNCHANGED <<svc, webhookSecret, now, facade, tasks, trace, fn, arg>>

CallMapResultCodeToUiMessage ==
  /\ fn = "mapResultCodeToUiMessage" /\ ret = NotCalled
  /\ ret' = mapResultCodeToUiMessage(arg)
  /\ UNCHANGED <<svc, webhookSecret, now, facade, tasks, trace, fn, arg>>

\* the method's boolean result, boxed
CallIsCheckoutSessionValid ==
  /\ fn = "isCheckoutSessionValid" /\ ret = NotCalled
  /\ ret' = [value |-> isCheckoutSessionValid(arg.session, now, arg.minutes)]
  /\ UNCHANGED <<svc, webhookSecret, now, facade, tasks, trace, fn, arg>>

NextFn ==
  \/ CallIsCheckoutSessionValid
  \/ CallMapWebhookEvent
  \/ CallNormalizePaymentResult
  \/ CallDecryptAndVerifyWebhook
  \/ CallMapResultCodeToUiMessage

SpecFn == InitFn /\ [][NextFn]_vars

----------------------------------------------------------------------------
(* Properties of the event classifier and the result normaliser (SpecFn) *)

Called(name) == fn = name /\ ret # NotCalled
Populated(x) == x \notin {Undefined, NullObj}
\* the event type string the classifier reads
TypeRead(payload) == ToLowerCase(Str(Or(payload.type, Or(payload.eventType, <<>>))))
PaymentKinds == {"payment_success", "payment_failed", "refund", "chargeback"}
RegistrationKinds == {"registration_created", "registration_updated"}
ScheduleKinds == {"schedule_created", "schedule_rescheduled", "schedule_canceled"}
RiskKinds == {"risk_flagged", "risk_cleared"}

\* C1: every payload whose type contains "refund" is classified refund and every
\* payload whose type contains "chargeback" is classified chargeback, whatever
\* else the type contains and whatever the result code is.
C1_RefundAndChargebackByType ==
  Called("mapWebhookEvent") =>
    /\ Includes(TypeRead(arg), K_refund) => ret.type = "refund"
    /\ Includes(TypeRead(arg), K_chargeback) => ret.type = "chargeback"

\* C7: a normalized result whose result code starts with "000." has approved = TRUE
\* and pending = FALSE, and approved and pending are never both TRUE, for the
\* result of _normalizePaymentResult and for the transaction of mapWebhookEvent.
Exclusive(n) ==
  /\ StartsWith(Str(n.resultCode), P_000) => n.approved /\ ~n.pending
  /\ ~(n.approved /\ n.pending)
C7_ApprovedExcludesPending ==
  /\ Called("_normalizePaymentResult") => Exclusive(ret)
  /\ Called("mapWebhookEvent") /\ Populated(ret.txn) => Exclusive(ret.txn)

\* C8: the transaction built by mapWebhookEvent has approved = TRUE exactly when
\* its resultCode field starts with "000.".
C8_ApprovedIffCodePrefix ==
  Called("mapWebhookEvent") /\ Populated(ret.txn) =>
    (ret.txn.approved <=> StartsWith(Str(ret.txn.resultCode), P_000))

\* C9 as claimed: exactly one of transaction, registration, schedule and risk is
\* populated and it matches the kind; an unknown event populates none.
PopulatedShapes(e) ==
  {k \in {"txn", "registration", "schedule", "risk"} : Populated(e[k])}
ShapeOfKind(kind) ==
  IF kind \in PaymentKinds THEN {"txn"}
  ELSE IF kind \in RegistrationKinds THEN {"registration"}
  ELSE IF kind \in ScheduleKinds THEN {"schedule"}
  ELSE IF kind \in RiskKinds THEN {"risk"}
  ELSE {}
C9_ExactlyOneSubShape ==
  Called("mapWebhookEvent") => PopulatedShapes(ret) = ShapeOfKind(ret.type)

\* C9 as amended: an event populates the sub-shape of its kind and no other, with
\* two exceptions: a payment_success event also carries registration exactly when
\* a registration id came with the payload or its transaction object, and a
\* schedule event carries the payload's schedule or subscription object, which is
\* null when the payload has neither.  An unknown event populates none.
C9_SubShapeMatchesKind ==
  Called("mapWebhookEvent") =>
    LET regId == Or(arg.registrationId, Or(TxnObjOf(arg).registrationId, Null))
        hasSchedule == arg.schedule # Absent \/ arg.subscription # Absent
    IN  /\ ret.raw = arg
        /\ ret.type = "payment_success" =>
             /\ PopulatedShapes(ret) \ {"registration"} = {"txn"}
             /\ Populated(ret.registration) <=> Truthy(regId)
             /\ Populated(ret.registration) => ret.registration.registrationId = regId
        /\ ret.type \in ScheduleKinds =>
             /\ PopulatedShapes(ret) \ {"schedule"} = {}
             /\ Populated(ret.schedule) <=> hasSchedule
        /\ ret.type \notin ScheduleKinds \cup {"payment_success"} =>
             PopulatedShapes(ret) = ShapeOfKind(ret.type)
C9_Witness ==
  /\ Called("mapWebhookEvent")
  /\ ret.type = "payment_success"
  /\ PopulatedShapes(ret) = {"txn", "registration"}

\* C10: with a signature header present whose value is not the hex HMAC of the
\* plaintext, decryptAndVerifyWebhook returns verified = FALSE and does not throw
\* (secret configured, body plaintext JSON that parses).
C10_MismatchIsVerifiedFalse ==
  Called("decryptAndVerifyWebhook") /\ Truthy(webhookSecret)
    /\ arg[1].kind = "plain" /\ arg[1].text # Malformed
    /\ Truthy(arg[2].sig)
    /\ ToLowerCase(Strip0x(arg[2].sig)) # SignatureOf(webhookSecret, arg[1].text)
  => ret.threw = "no" /\ ret.verified = FALSE

----------------------------------------------------------------------------
(* Properties of the calls (Spec) *)

Deliveries == {t \in TaskIds : tasks[t].op = "handleWebhook"}
\* the deliveries that decryptAndVerifyWebhook returned for
Decrypted == {t \in Deliveries : tasks[t].pc # "threw"}
\* the deliveries that have been classified
Routed == {t \in Decrypted : tasks[t].pc # "saveWebhook"}
Finished(t) == tasks[t].pc = "done"
\* the places of the history where call t made the facade call or handler `what`
Made(t, what) == {i \in 1..Len(trace) : trace[i].task = t /\ trace[i].what = what}
Handlers ==
  {"onPaymentSuccess", "onPaymentFailed", "onRefund", "onChargeback",
   "onRegistrationCreated", "onRegistrationUpdated", "onScheduleEvent", "onRiskEvent"}
HandlerOfKind(kind) ==
  CASE kind = "payment_success" -> "onPaymentSuccess"
    [] kind = "payment_failed" -> "onPaymentFailed"
    [] kind = "refund" -> "onRefund"
    [] kind = "chargeback" -> "onChargeback"
    [] kind = "registration_created" -> "onRegistrationCreated"
    [] kind = "registration_updated" -> "onRegistrationUpdated"
    [] kind \in ScheduleKinds -> "onScheduleEvent"
    [] kind \in RiskKinds -> "onRiskEvent"
    [] OTHER -> "none"
Invoked(t) == {i \in 1..Len(trace) : trace[i].task = t /\ trace[i].what \in Handlers}

\* C2: once a transaction record with status success has been written for a
\* gateway transaction id, no later write for the same id has status pending or
\* failed.
C2_NoRevertFromSuccess ==
  \A i, j \in 1..Len(svc.transactions) :
    LET a == svc.transactions[i]
        b == svc.transactions[j]
    IN  i < j /\ Truthy(a.gatewayTxnId) /\ a.gatewayTxnId = b.gatewayTxnId
          /\ a.status = "success"
        => b.status \notin {"pending", "failed"}

\* C3 as claimed: the audit log holds one record per delivery passed to
\* handleWebhook.
C3_OneRecordPerDelivery == Len(svc.webhooks) = Cardinality(Deliveries)

\* C3 as amended: every delivery for which decryptAndVerifyWebhook returns,
\* verified or not, mapped or not, appends exactly one audit record holding its
\* payload and its verified flag, a delivery whose decryption or verification
\* throws appends none, and no step removes or rewrites a stored record.
AuditRecordOf(t) ==
  [payload |-> tasks[t].out.decryptedJson, event |-> Null,
   verified |-> tasks[t].out.verified, idempotencyKey |-> tasks[t].out.idempotencyKey]
C3_AuditComplete ==
  /\ Len(svc.webhooks) = Cardinality(Decrypted)
  /\ \A t \in Deliveries :
       Cardinality(Made(t, "svc.saveWebhook")) = IF t \in Decrypted THEN 1 ELSE 0
  /\ \A t \in Decrypted : \E i \in 1..Len(svc.webhooks) : svc.webhooks[i] = AuditRecordOf(t)
C3_AppendOnly ==
  /\ Len(svc.webhooks') >= Len(svc.webhooks)
  /\ SubSeq(svc.webhooks', 1, Len(svc.webhooks)) = svc.webhooks
C3_AuditLog == []C3_AuditComplete /\ [][C3_AppendOnly]_vars
C3_Witness ==
  /\ \E t \in Routed : ~tasks[t].out.verified /\ tasks[t].event.type = "unknown"
  /\ \E t \in Deliveries : t \notin Decrypted
  /\ Len(svc.webhooks) = 1

\* C4: a delivery that decrypted and was classified to a kind other than unknown
\* has invoked exactly one handler, once, the handler of its kind, and the
\* delivery's audit record was saved before; this holds for unverified
\* deliveries too.  A delivery not yet classified, or classified unknown, has
\* invoked none.
C4_OneHandlerAfterAudit ==
  \A t \in Decrypted :
    /\ t \notin Routed => Invoked(t) = {}
    /\ t \in Routed =>
         IF tasks[t].event.type = "unknown" THEN Invoked(t) = {}
         ELSE /\ Cardinality(Invoked(t)) = 1
              /\ \A i \in Invoked(t) :
                   /\ trace[i].what = HandlerOfKind(tasks[t].event.type)
                   /\ \E j \in Made(t, "svc.saveWebhook") : j < i
C4_Witness ==
  \E t \in Routed :
    /\ ~tasks[t].out.verified
    /\ Finished(t)
    /\ Made(t, "onPaymentSuccess") # {}

\* C5: a finished handleWebhook call whose webhook was classified payment_success
\* has saved exactly one transaction record, with status success, and exactly one
\* audit record, has called grantAccess, and has saved a token record keyed by
\* the registration id exactly when a registration id came with the webhook; at
\* no time has it called denyAccess.
AccompanyingRegistrationId(payload) ==
  Or(payload.registrationId, Or(TxnObjOf(payload).registrationId, Null))
C5_PaymentSuccessEffects ==
  \A t \in Routed :
    tasks[t].event.type = "payment_success" =>
      LET regId == AccompanyingRegistrationId(tasks[t].out.decryptedJson)
      IN  /\ Made(t, "svc.denyAccess") = {}
          /\ Cardinality(Made(t, "svc.saveTransaction")) = 1
          /\ \A i \in Made(t, "svc.saveTransaction") :
               /\ trace[i].arg.status = "success"
               /\ \E k \in 1..Len(svc.transactions) : svc.transactions[k] = trace[i].arg
          /\ \A i \in Made(t, "svc.saveToken") : trace[i].arg.id = regId
          /\ Finished(t) =>
               /\ Cardinality(Made(t, "svc.saveWebhook")) = 1
               /\ Cardinality(Made(t, "svc.grantAccess")) >= 1
               /\ Made(t, "svc.saveToken") # {} <=> Truthy(regId)
               /\ Truthy(regId) =>
                    \/ regId \in DOMAIN svc.tokens
                    \/ \E i \in Made(t, "svc.saveToken"), j \in 1..Len(trace) :
                         /\ i < j /\ trace[j].what = "svc.deleteToken"
                         /\ trace[j].arg.id = regId
C5_Witness ==
  \E t \in Routed :
    /\ tasks[t].event.type = "payment_success"
    /\ Finished(t)
    /\ R1 \in DOMAIN svc.tokens
    /\ Len(svc.grants) = 1

\* C6: a finished handleWebhook call whose webhook was classified payment_failed,
\* refund or chargeback has saved exactly one transaction record, with status
\* failed, refunded or chargeback respectively, and has called denyAccess exactly
\* once; at no time has it called grantAccess.
DenialStatus(kind) ==
  CASE kind = "payment_failed" -> "failed"
    [] kind = "refund" -> "refunded"
    [] kind = "chargeback" -> "chargeback"
C6_DenialEffects ==
  \A t \in Routed :
    tasks[t].event.type \in {"payment_failed", "refund", "chargeback"} =>
      /\ Made(t, "svc.grantAccess") = {}
      /\ Cardinality(Made(t, "svc.saveTransaction")) = 1
      /\ \A i \in Made(t, "svc.saveTransaction") :
           /\ trace[i].arg.status = DenialStatus(tasks[t].event.type)
           /\ \E k \in 1..Len(svc.transactions) : svc.transactions[k] = trace[i].arg
      /\ Cardinality(Made(t, "svc.denyAccess")) <= 1
      /\ Finished(t) =>
           /\ Cardinality(Made(t, "svc.denyAccess")) = 1
           /\ Len(svc.denials) >= 1
C6_Witness ==
  /\ \E t \in Routed : tasks[t].event.type = "chargeback" /\ Finished(t)
  /\ \E t \in Routed : tasks[t].event.type = "refund" /\ Finished(t)

\* C11: a delivery that decryptAndVerifyWebhook fails on (no secret configured,
\* ciphertext without an IV header, ciphertext the key does not decrypt, text
\* that is not JSON) ends handleWebhook with the exception, carries no partial
\* result, and has made no facade call; when every call so far is such a
\* delivery the facade's collections are still empty.
FailingDelivery(secret, d) ==
  \/ ~Truthy(secret)
  \/ d[1].kind = "aes" /\ ~Truthy(d[2].iv)
  \/ d[1].kind = "aes" /\ d[1].key # _coerceKeyTo32Bytes(secret)
  \/ d[1].kind = "aes" /\ d[1].iv # d[2].iv
  \/ d[1].text = Malformed
C11_NoPersistenceOnDecryptFailure ==
  /\ \A t \in Deliveries :
       FailingDelivery(webhookSecret, tasks[t].delivery) =>
         /\ tasks[t].pc = "threw"
         /\ DOMAIN tasks[t] = {"op", "pc", "error", "delivery"}
         /\ \A i \in 1..Len(trace) : trace[i].task # t
  /\ (\A t \in TaskIds :
        t \in Deliveries /\ FailingDelivery(webhookSecret, tasks[t].delivery))
       => svc = NewService
C11_Witness ==
  /\ Truthy(webhookSecret)
  /\ \E t \in Deliveries : tasks[t].pc = "threw" /\ tasks[t].error = "bad decrypt"
  /\ \E t \in Deliveries :
       /\ tasks[t].pc = "threw"
       /\ tasks[t].error = "Missing IV header for webhook decryption"

\* C12: with a secret configured, a delivery made from a JSON object payload
\* (its JSON text encrypted under the key derived from the secret and an IV that
\* is sent in the IV header, or its JSON text as the body) and carrying the hex
\* HMAC of that text under the derived key as its signature yields
\* decryptedJson equal to the payload and verified = TRUE.
RoundTripDelivery(secret, d) ==
  /\ Truthy(secret)
  /\ d[1].text # Malformed
  /\ d[2].sig = SignatureOf(secret, d[1].text)
  /\ d[1].kind = "aes" =>
       /\ d[1].key = _coerceKeyTo32Bytes(secret)
       /\ Truthy(d[2].iv) /\ d[2].iv = d[1].iv
Rules ==
  <<<<P_000, MsgApproved>>, <<P_200_300, MsgIssuerDeclined>>, <<P_100_396, Msg3DS>>,
    <<P_800_400, MsgInvalidCard>>, <<P_700, MsgExpired>>>>
RuleDecides(out) ==
  /\ out.uiMessage # ""
  /\ \A r \in 1..Len(Rules) : StartsWith(out.code, Rules[r][1]) => out.uiMessage = Rules[r][2]
  /\ (\A r \in 1..Len(Rules) : ~StartsWith(out.code, Rules[r][1])) => out.uiMessage = MsgFailed
C13_TotalEchoesInput ==
  Called("mapResultCodeToUiMessage") => ret.code = arg /\ RuleDecides(ret)

\* C13 as amended: the code returned is the input without its leading and
\* trailing whitespace, the uiMessage is non-empty, and a rule whose prefix that
\* code starts with decides the message (no prefix is a prefix of another, so no
\* rule shadows a later one); a code no rule matches gets the generic message.
StrippedOf(input, code) ==
  /\ code # <<>> => code[1] \notin Whitespace /\ code[Len(code)] \notin Whitespace
  /\ \E i \in 0..Len(input) :
       /\ i + Len(code) <= Len(input)
       /\ SubSeq(input, i + 1, i + Len(code)) = code
       /\ \A k \in 1..Len(input) : (k <= i \/ k > i + Len(code)) => input[k] \in Whitespace
C13_TotalEchoesTrimmedInput ==
  Called("mapResultCodeToUiMessage") => StrippedOf(arg, ret.code) /\ RuleDecides(ret)
C13_Witness ==
  /\ Called("mapResultCodeToUiMessage")
  /\ ret.code # arg
  /\ ret.uiMessage = MsgInvalidCard

\* C14: isCheckoutSessionValid(session) is TRUE exactly when the session's status
\* is pending and the time elapsed since its createdAt is strictly less than the
\* configured TTL in minutes, for every session record and creation time,
\* createdAt = 0 and elapsed = TTL included.
PendingWithinTtl(session, nowMs, minutes) ==
  /\ session # NullObj
  /\ session.status = "pending"
  /\ session.createdAt # Absent
  /\ nowMs - session.createdAt.num < minutes * MsPerMinute
C14_ValidIffPendingWithinTtl ==
  Called("isCheckoutSessionValid") =>
    (ret.value <=> PendingWithinTtl(arg.session, now, arg.minutes))

\* C15: when the sessions that createCheckoutSession looked up for the orderId
\* include one that is pending and within the TTL at the time they are examined,
\* the call returns that session's checkoutId and id, makes no gateway call and
\* saves no session; otherwise it makes one gateway call and, when it succeeds,
\* has saved exactly one session, new and with status pending.
Checkouts == {t \in TaskIds : tasks[t].op = "createCheckoutSession"}
ValidAtLookup(t) ==
  {i \in 1..Len(tasks[t].existing) :
     PendingWithinTtl(tasks[t].existing[i], tasks[t].checkedAt.num, checkoutExpiryMinutes)}
C15_ReuseOrCreateOne ==
  \A t \in Checkouts :
    IF tasks[t].checkedAt = Absent
      THEN Made(t, "http") = {} /\ Made(t, "svc.saveSession") = {}
    ELSE IF ValidAtLookup(t) # {}
      THEN /\ Finished(t)
           /\ \E i \in ValidAtLookup(t) :
                /\ tasks[t].result.checkoutId = tasks[t].existing[i].checkoutId
                /\ tasks[t].result.sessionId = tasks[t].existing[i].id
           /\ Made(t, "http") = {}
           /\ Made(t, "svc.saveSession") = {}
    ELSE /\ Cardinality(Made(t, "http")) = 1
         /\ Cardinality(Made(t, "svc.saveSession")) = IF Finished(t) THEN 1 ELSE 0
         /\ \A i \in Made(t, "svc.saveSession") :
              /\ trace[i].arg.status = "pending"
              /\ trace[i].arg.orderId = tasks[t].orderId
              /\ trace[i].arg.id = tasks[t].result.sessionId
              /\ trace[i].arg.checkoutId = tasks[t].result.checkoutId
              /\ \A k \in 1..Len(tasks[t].existing) :
                   tasks[t].existing[k].id # trace[i].arg.id
              /\ \E k \in 1..Len(svc.sessions) : svc.sessions[k].id = trace[i].arg.id
C15_Witness ==
  /\ \E t \in Checkouts :
       Finished(t) /\ tasks[t].existing # <<>> /\ Made(t, "http") = {}
  /\ Len(svc.sessions) = 1

\* C16: an upgradeSubscription call whose newRecurring has no registrationId ends
\* with the exception and has made no gateway request and no facade call (no
\* debit, no cancellation, no schedule); when every call so far is such a call
\* the facade's collections are still empty.
Upgrades == {t \in TaskIds : tasks[t].op = "upgradeSubscription"}
WithoutToken(t) == ~Truthy(tasks[t].newRecurring.registrationId)
C16_MissingTokenThrowsFirst ==
  /\ \A t \in Upgrades :
       WithoutToken(t) =>
         /\ tasks[t].pc = "threw"
         /\ \A i \in 1..Len(trace) : trace[i].task # t
  /\ (\A t \in TaskIds : t \in Upgrades /\ WithoutToken(t)) => svc = NewService
C16_Witness ==
  /\ \E t \in Upgrades : WithoutToken(t) /\ tasks[t].pc = "threw"
  /\ \E t \in Upgrades : ~WithoutToken(t) /\ Finished(t)

\* C17: once the schedule record of a scheduleId has status canceled, no step of
\* an adapter operation or of a webhook handler sets the record of that
\* scheduleId to active.
C17_CancelIrreversible ==
  [][\A id \in DOMAIN svc.schedules :
       svc.schedules[id].status = "canceled" => svc.schedules'[id].status # "active"]_vars

\* C18: a createRegistrationToken call that the gateway answered with a
\* registration id has saved a token record keyed by that id and returns the id
\* as registrationId; a deleteRegistrationToken call the gateway accepted has
\* deleted the token and returns true, one the gateway rejected returns false
\* and has deleted nothing; the registry holds an id exactly when the last
\* token call for it was not a delete.
TokenCalls(id) ==
  {i \in 1..Len(trace) :
     /\ trace[i].what \in {"svc.saveToken", "svc.updateToken", "svc.deleteToken"}
     /\ trace[i].arg.id = id}
Last(S) == CHOOSE i \in S : \A j \in S : j <= i
C18_TokenRegistry ==
  /\ \A t \in TaskIds :
       tasks[t].op = "createRegistrationToken" /\ Finished(t)
         /\ Is2xx(tasks[t].result.status) /\ Truthy(DataId(tasks[t].result)) =>
           /\ \E i \in Made(t, "svc.saveToken") : trace[i].arg.id = DataId(tasks[t].result)
           /\ "registrationId" \in DOMAIN tasks[t].result
  /\ \A t \in TaskIds :
       tasks[t].op = "deleteRegistrationToken" /\ Finished(t) =>
         IF tasks[t].result.value
           THEN \E i \in Made(t, "svc.deleteToken") : trace[i].arg.id = tasks[t].registrationId
         ELSE Made(t, "svc.deleteToken") = {}
  /\ \A id \in {R1} :
       id \in DOMAIN svc.tokens <=>
         (TokenCalls(id) # {} /\ trace[Last(TokenCalls(id))].what # "svc.deleteToken")

\* C19: when a persistence call made for a webhook delivery throws,
\* handleWebhook ends with that error, the delivery makes no call after the one
\* that threw, it has attempted each persistence call at most once, and the
\* webhook route answers with a status outside 200..299.
FacadeCalls ==
  {"svc.saveWebhook", "svc.saveTransaction", "svc.saveToken", "svc.updateToken",
   "svc.grantAccess", "svc.denyAccess", "svc.upsertSchedule"}
Failed == {t \in Deliveries : "failedAt" \in DOMAIN tasks[t]}
C19_PersistenceErrorPropagates ==
  \A t \in Failed :
    /\ tasks[t].pc = "rejected" /\ tasks[t].error = FacadeError
    /\ \A i \in 1..Len(trace) : trace[i].task = t => i <= tasks[t].failedAt
    /\ \A what \in FacadeCalls : Cardinality(Made(t, what)) <= 1
    /\ ~Is2xx(WebhookRouteStatus(tasks[t]))
\* a delivery whose transaction was saved and whose grantAccess call threw
C19_Witness ==
  \E t \in Failed :
    /\ trace[tasks[t].failedAt].what = "svc.grantAccess"
    /\ Made(t, "svc.saveTransaction") # {}
    /\ svc.transactions # <<>> /\ svc.grants = <<>>

\* C20: every decrypted delivery of the keyed payment_success payload has its
\* own audit record, and every such delivery that has been handled to the end
\* saved one transaction record and made one grant, whatever was delivered
\* before it; the facade's lists hold one item per call, so n deliveries of the
\* payload leave n audit records, n transactions and n grants.
Keyed == {t \in Decrypted : tasks[t].out.decryptedJson = JsonText(P_keyed).json}
CallsOf(what) == {i \in 1..Len(trace) : trace[i].what = what}
C20_NoDeduplication ==
  /\ \A t \in Keyed : tasks[t].out.idempotencyKey = E1
  /\ Cardinality({i \in 1..Len(svc.webhooks) :
                    /\ svc.webhooks[i].idempotencyKey = E1
                    /\ svc.webhooks[i].payload = JsonText(P_keyed).json})
       = Cardinality(Keyed)
  /\ \A t \in Keyed :
       Finished(t) =>
         /\ Cardinality(Made(t, "svc.saveTransaction")) = 1
         /\ \A i \in Made(t, "svc.saveTransaction") : trace[i].arg.status = "success"
         /\ Cardinality(Made(t, "svc.grantAccess")) = 1
  /\ Len(svc.transactions) = Cardinality(CallsOf("svc.saveTransaction"))
  /\ Len(svc.grants) = Cardinality(CallsOf("svc.grantAccess"))
\* the same delivery handled twice: two audit records, transactions and grants
C20_Witness ==
  /\ Cardinality(Keyed) = 2
  /\ \A t \in Keyed : Finished(t)
  /\ \A t, u \in Keyed : tasks[t].delivery = tasks[u].delivery
  /\ Len(svc.webhooks) = 2 /\ svc.webhooks[1] = svc.webhooks[2]
  /\ Len(svc.transactions) = 2 /\ svc.transactions[1] = svc.transactions[2]
  /\ Len(svc.grants) = 2 /\ svc.grants[1] = svc.grants[2]

\* C21: an upgradeSubscription call sends the cancel request only after its
\* debit was answered 2xx and the charge transaction was saved, and the request
\* that creates the new schedule only after its cancel request was answered 2xx
\* and the old schedule was recorded as canceled; when the cancel or the create
\* fails after the debit, the call ends with the error, the charge transaction
\* is still in the transaction list, and the failed request is the last thing
\* the call did (no refund, no void, no schedule write).
UpgradeCalls == {t \in Upgrades : ~WithoutToken(t)}
Requests(t, method, path) ==
  {i \in Made(t, "http") : trace[i].arg = HttpRequest(method, path)}
Before(I, J) == \A j \in J : \E i \in I : i < j
Charged(t) == "record" \in DOMAIN tasks[t] /\ tasks[t].record # Undefined
C21_UpgradeStepsInOrder ==
  \A t \in UpgradeCalls :
    LET task == tasks[t]
        debit == Requests(t, "POST", <<"/v1/registrations/", task.registrationId, "/payments">>)
        cancel == Requests(t, "DELETE", SubscriptionsPath(task.subscriptionId))
        create == Requests(t, "POST", <<"/v1/subscriptions">>)
        canceled == {i \in Made(t, "svc.upsertSchedule") : trace[i].arg.status = "canceled"}
        created == {i \in Made(t, "svc.upsertSchedule") : trace[i].arg.status = "active"}
    IN  /\ Cardinality(debit) = 1 /\ Cardinality(cancel) <= 1 /\ Cardinality(create) <= 1
        /\ Before(debit, Made(t, "svc.saveTransaction"))
        /\ Before(Made(t, "svc.saveTransaction"), cancel)
        /\ Before(cancel, canceled)
        /\ Before(canceled, create)
        /\ Before(create, created)
        /\ task.pc = "threw" /\ Charged(t) =>
             /\ \E k \in 1..Len(svc.transactions) : svc.transactions[k] = task.record
             /\ created = {}
             /\ \A i \in 1..Len(trace) :
                  trace[i].task = t => \E j \in cancel \cup create : i <= j
             /\ \A i \in Made(t, "http") : i \in debit \cup cancel \cup create
\* charged but not migrated: the charge was approved and saved, the cancel request
\* failed, the call threw and the old schedule has no canceled record
C21_Witness ==
  \E t \in UpgradeCalls :
    /\ tasks[t].pc = "threw" /\ Charged(t)
    /\ tasks[t].record.status = "success"
    /\ \E k \in 1..Len(svc.transactions) : svc.transactions[k] = tasks[t].record
    /\ Requests(t, "DELETE", SubscriptionsPath(tasks[t].subscriptionId)) # {}
    /\ tasks[t].subscriptionId \notin DOMAIN svc.schedules

\* C30: an upgradeSubscription call whose proration debit was answered 2xx with
\* a result that is not approved sends no cancel request, writes no schedule
\* record and sends no request that creates a schedule.
C30_NoMigrationWithoutCharge ==
  \A t \in UpgradeCalls :
    Charged(t) /\ tasks[t].record.status # "success" =>
      /\ Requests(t, "DELETE", SubscriptionsPath(tasks[t].subscriptionId)) = {}
      /\ Requests(t, "POST", <<"/v1/subscriptions">>) = {}
      /\ Made(t, "svc.upsertSchedule") = {}

\* C22: a handleRedirectCallback or S2S call that the gateway answered 2xx does
\* not throw and saves exactly one transaction record, whose status is success
\* if the normalized result is approved, else pending if it is pending, else
\* failed; it calls grantAccess only for status success and denyAccess only for
\* status failed, and once it has finished it has made that call exactly once;
\* a call answered with another status throws and makes no facade call.
SyncCalls == {t \in TaskIds : tasks[t].op \in {"s2s", "redirect"}}
ExpectedStatus(res) == StatusOf(_normalizePaymentResult(DataOrEmpty(res)))
FacadeCallsOf(t) ==
  {i \in 1..Len(trace) : trace[i].task = t /\ trace[i].what # "http"}
C22_SyncPathEffects ==
  \A t \in SyncCalls :
    LET res == tasks[t].res
        saved == Made(t, "svc.saveTransaction")
        grants == Made(t, "svc.grantAccess")
        denials == Made(t, "svc.denyAccess")
    IN  IF Is2xx(res.status)
          THEN /\ tasks[t].pc # "threw"
               /\ Cardinality(saved) = 1
               /\ \A i \in saved :
                    /\ trace[i].arg.status = ExpectedStatus(res)
                    /\ \E k \in 1..Len(svc.transactions) : svc.transactions[k] = trace[i].arg
               /\ grants # {} => ExpectedStatus(res) = "success"
               /\ denials # {} => ExpectedStatus(res) = "failed"
               /\ Finished(t) =>
                    /\ Cardinality(grants) = IF ExpectedStatus(res) = "success" THEN 1 ELSE 0
                    /\ Cardinality(denials) = IF ExpectedStatus(res) = "failed" THEN 1 ELSE 0
        ELSE tasks[t].pc = "threw" /\ FacadeCallsOf(t) = {}

\* C27: no webhook delivery classified refund, and no s2sRefund or s2sVoid
\* call, calls grantAccess.
C27_RefundNeverGrants ==
  /\ \A t \in Routed :
       tasks[t].event.type = "refund" => Made(t, "svc.grantAccess") = {}
  /\ \A t \in TaskIds :
       tasks[t].op = "s2s" /\ tasks[t].label \in {"refund", "void"} =>
         Made(t, "svc.grantAccess") = {}

\* C23: a delivery whose type contains "payment" and none of refund,
\* chargeback, registration, schedule, subscription and risk, and whose
\* transaction reads as pending and not approved, is classified unknown, and the
\* only facade call made for it is the saveWebhook of its audit record.
LaterKeywords == {K_refund, K_chargeback, K_registration, K_schedule, K_subscription, K_risk}
PendingPayment(payload) ==
  /\ Includes(TypeRead(payload), K_payment)
  /\ \A k \in LaterKeywords : ~Includes(TypeRead(payload), k)
  /\ Includes(ToLowerCase(Str(ResultDescriptionOf(TxnObjOf(payload)))), K_pending)
  /\ ~StartsWith(Str(ResultCodeOf(TxnObjOf(payload))), P_000)
PendingDeliveries == {t \in Routed : PendingPayment(tasks[t].out.decryptedJson)}
C23_PendingPaymentIsUnknown ==
  \A t \in PendingDeliveries :
    /\ tasks[t].event.type = "unknown"
    /\ Finished(t)
    /\ Invoked(t) = {}
    /\ \A i \in FacadeCallsOf(t) : trace[i].what = "svc.saveWebhook"
    /\ Cardinality(FacadeCallsOf(t)) = 1
\* such a delivery handled while the facade's other collections are empty
C23_Witness ==
  /\ PendingDeliveries # {}
  /\ Len(svc.webhooks) = Cardinality(PendingDeliveries)
  /\ svc.transactions = <<>> /\ svc.grants = <<>> /\ svc.denials = <<>>
  /\ DOMAIN svc.tokens = {} /\ DOMAIN svc.schedules = {}

\* C25: a pauseSubscription call stores its resume instruction only after the
\* gateway answered its cancel request with a status in 200..299 and after it
\* recorded the schedule as canceled; a call whose cancel request was answered
\* with another status throws and writes neither a resume instruction nor a
\* schedule record.
Pauses == {t \in TaskIds : tasks[t].op = "pauseSubscription"}
C25_ResumeInstructionAfterCancel ==
  \A t \in Pauses :
    LET task == tasks[t]
        cancel == Requests(t, "DELETE", SubscriptionsPath(task.subscriptionId))
        canceled == {i \in Made(t, "svc.upsertSchedule") :
                       /\ trace[i].arg.status = "canceled"
                       /\ trace[i].arg.scheduleId = task.subscriptionId}
        stored == Made(t, "svc.saveResumeInstruction")
    IN  /\ Cardinality(cancel) = 1 /\ Cardinality(stored) <= 1
        /\ Made(t, "svc.upsertSchedule") = canceled
        /\ Before(cancel, canceled)
        /\ Before(canceled, stored)
        /\ canceled # {} => task.answer # Undefined /\ task.answer.status \in 200..299
        /\ Finished(t) => Cardinality(stored) = 1 /\ Len(svc.resume) >= 1
        /\ task.answer # Undefined /\ task.answer.status \notin 200..299 =>
             /\ task.pc = "threw"
             /\ FacadeCallsOf(t) = {}
\* a pause of an active schedule whose cancellation failed: thrown, nothing
\* stored, the schedule still active
C25_Witness ==
  \E t \in Pauses :
    /\ tasks[t].pc = "threw"
    /\ tasks[t].answer.status \notin 200..299
    /\ svc.resume = <<>>
    /\ tasks[t].subscriptionId \in DOMAIN svc.schedules
    /\ svc.schedules[tasks[t].subscriptionId].status = "active"

\* C26: a finished handleRedirectCallback call has saved, with the status of its
\* transaction, exactly the sessions that its lookup found for the order with
\* status pending, whatever the gateway answered; it has saved no other session.
Redirects == {t \in TaskIds : tasks[t].op = "redirect"}
PendingFound(t) ==
  {tasks[t].found[k].id : k \in {j \in 1..Len(tasks[t].found) :
                                    tasks[t].found[j].status = "pending"}}
C26_PendingSessionsUpdated ==
  \A t \in {u \in Redirects : tasks[u].pc # "threw"} :
    /\ \A k \in 1..Len(tasks[t].found) : tasks[t].found[k].orderId = tasks[t].txn.orderId
    /\ \A i \in Made(t, "svc.saveSession") :
         /\ trace[i].arg.id \in PendingFound(t)
         /\ trace[i].arg.status = tasks[t].txn.status
    /\ Finished(t) =>
         {trace[i].arg.id : i \in Made(t, "svc.saveSession")} = PendingFound(t)

\* C28: at every moment at most one stored session of order O1 is valid, that is
\* pending and younger than the TTL.
ValidSessions(orderId) ==
  {k \in 1..Len(svc.sessions) :
     /\ svc.sessions[k].orderId = orderId
     /\ isCheckoutSessionValid(svc.sessions[k], now, checkoutExpiryMinutes)}
C28_OneValidSessionPerOrder == Cardinality(ValidSessions(O1)) <= 1

\* C29: when every webhook delivery has been handled to its end, the last
\* entitlement call made by a webhook handler is a grantAccess exactly if the
\* last transaction record saved by a webhook handler has status success.
HandlerEntitlements ==
  {i \in 1..Len(trace) : /\ trace[i].task \in Deliveries
                          /\ trace[i].what \in {"svc.grantAccess", "svc.denyAccess"}}
HandlerSaves ==
  {i \in 1..Len(trace) : /\ trace[i].task \in Deliveries
                          /\ trace[i].what = "svc.saveTransaction"}
C29_LastEntitlementMatchesLastStatus ==
  /\ \A t \in Deliveries : tasks[t].pc \in {"done", "threw"}
  /\ HandlerEntitlements # {} /\ HandlerSaves # {}
  => (trace[Last(HandlerEntitlements)].what = "svc.grantAccess"
        <=> trace[Last(HandlerSaves)].arg.status = "success")

\* C24: with a gateway that delivers a webhook again after every answer that is
\* not 2xx and a facade that stops rejecting, eventually a delivery of the
\* webhook is handled to the end without a rejected call, with every facade call
\* of its handler made (for payment_success the transaction saved and access
\* granted), and the route answers it with a status in 200..299.
RequiredCalls(t) ==
  LET event == tasks[t].event
  IN  CASE event.type = "payment_success" ->
             {"svc.saveWebhook", "svc.saveTransaction", "svc.grantAccess"}
               \cup IF Truthy(RegistrationIdOf(event)) THEN {"svc.saveToken"} ELSE {}
        [] event.type \in {"payment_failed", "refund", "chargeback"} ->
             {"svc.saveWebhook", "svc.saveTransaction", "svc.denyAccess"}
        [] event.type = "registration_created" /\ Truthy(RegistrationIdOf(event)) ->
             {"svc.saveWebhook", "svc.saveToken"}
        [] event.type = "registration_updated" /\ Truthy(RegistrationIdOf(event)) ->
             {"svc.saveWebhook", "svc.updateToken"}
        [] event.type \in ScheduleKinds -> {"svc.saveWebhook", "svc.upsertSchedule"}
        [] OTHER -> {"svc.saveWebhook"}
Completed(t) ==
  /\ Finished(t) /\ t \notin Failed
  /\ \A what \in RequiredCalls(t) : Made(t, what) # {}
  /\ WebhookRouteStatus(tasks[t]) \in 200..299
C24_ConvergesUnderRetry == <>(\E t \in Deliveries : Completed(t))
\* a payment_success webhook whose first delivery was rejected after its
\* transaction was saved and whose second delivery completed
C24_Witness ==
  \E t, u \in Deliveries :
    /\ t < u /\ tasks[t].delivery = tasks[u].delivery
    /\ t \in Failed /\ trace[tasks[t].failedAt].what = "svc.grantAccess"
    /\ Completed(u) /\ tasks[u].event.type = "payment_success"
    /\ Len(svc.grants) = 1 /\ Len(svc.transactions) = 2

====
